---- MODULE Spec2Model ----
(***************************************************************************)
(* Model of the orbat portfolio optimizers: MarkowitzOptimizer, and        *)
(* BlackLittermanOptimizer, which delegates to it.                         *)
(*                                                                         *)
(* Numbers.  A C++ double is modelled by an exact rational <<n, d>> in     *)
(* lowest terms with d > 0.  The small literals of the code (1e-15, 1e-8,  *)
(* 1e-6) are kept exactly as decimal values [m |-> mantissa, e |-> k]      *)
(* meaning m * 10^-k; a rational is compared with such a value by          *)
(* repeated division by ten, so that no intermediate value leaves the      *)
(* range of 32-bit integers.                                               *)
(*                                                                         *)
(* Square roots.  Matrix::cholesky is carried in square-root-free form:    *)
(* for the factor L of the code, D[j] = L(j,j)^2 and M[i][j] =             *)
(* L(i,j) * L(j,j).  Every test of the code on L(j,j) is a test on D[j].   *)
(* A risk (a standard deviation) is carried by its square.                 *)
(***************************************************************************)
EXTENDS Integers, Sequences, FiniteSets, TLC

(***************************************************************************)
(* Exact rational arithmetic                                               *)
(***************************************************************************)
Abs(a) == IF a < 0 THEN -a ELSE a

RECURSIVE Gcd(_, _)
Gcd(a, b) == IF b = 0 THEN a ELSE Gcd(b, a % b)

Rat(n, d) ==
    LET s == IF d < 0 THEN -1 ELSE 1
        g == Gcd(Abs(n), Abs(d))
    IN  <<(s * n) \div g, (s * d) \div g>>

Zero == <<0, 1>>
One == <<1, 1>>
RInt(k) == <<k, 1>>

RAdd(a, b) ==
    LET g == Gcd(a[2], b[2])
    IN  Rat(a[1] * (b[2] \div g) + b[1] * (a[2] \div g), (a[2] \div g) * b[2])
RNeg(a) == <<-a[1], a[2]>>
RSub(a, b) == RAdd(a, RNeg(b))
RMul(a, b) ==
    LET g1 == Gcd(Abs(a[1]), b[2])
        g2 == Gcd(Abs(b[1]), a[2])
    IN  IF a[1] = 0 \/ b[1] = 0 THEN Zero
        ELSE <<(a[1] \div g1) * (b[1] \div g2), (a[2] \div g2) * (b[2] \div g1)>>
RDiv(a, b) == RMul(a, Rat(b[2], b[1]))
RAbs(a) == <<Abs(a[1]), a[2]>>
RSign(a) == IF a[1] > 0 THEN 1 ELSE IF a[1] < 0 THEN -1 ELSE 0
RLt(a, b) == RSign(RSub(a, b)) < 0
RLe(a, b) == RSign(RSub(a, b)) <= 0
RMax(a, b) == IF RLt(a, b) THEN b ELSE a

(***************************************************************************)
(* Decimal literals m * 10^-e and comparisons of a rational with them      *)
(***************************************************************************)
Dec(m, e) == [m |-> m, e |-> e]

RECURSIVE FloorDivPow10(_, _)
FloorDivPow10(a, e) == IF e = 0 THEN a ELSE FloorDivPow10(a \div 10, e - 1)

\* x > m * 10^-e   <=>   n * 10^e > m * d   <=>   n > floor(m * d / 10^e)
GtDec(x, t) == x[1] > FloorDivPow10(t.m * x[2], t.e)
\* x < m * 10^-e   <=>   -x > -m * 10^-e
LtDec(x, t) == -x[1] > FloorDivPow10(-(t.m * x[2]), t.e)
LeDec(x, t) == ~GtDec(x, t)
DecPositive(t) == t.m > 0
\* a double that holds NaN where a decimal is expected: every comparison with
\* it is false
NaNDec == [m |-> 0, e |-> -1]
DecIsNaN(t) == t.e < 0
DecNegative(t) == t.m < 0
\* the square of a decimal literal
DecSquare(t) == Dec(t.m * t.m, 2 * t.e)

\* core::EPSILON
EPSILON == Dec(1, 15)
\* the literal 1e-6
OneMillionth == Dec(1, 6)
\* the rational a decimal stands for
DecToRat(d) == Rat(d.m, 10^d.e)

(***************************************************************************)
(* core::Vector and core::Matrix                                           *)
(***************************************************************************)
RECURSIVE SumTo(_, _)
SumTo(v, k) == IF k = 0 THEN Zero ELSE RAdd(SumTo(v, k - 1), v[k])

\* Vector::sum
VSum(v) == SumTo(v, Len(v))
\* Vector::dot (the operands have equal sizes wherever the optimizers use it)
Dot(u, v) == VSum([k \in 1..Len(u) |-> RMul(u[k], v[k])])
\* Vector::operator*(double)
VScale(v, c) == [k \in 1..Len(v) |-> RMul(v[k], c)]
\* Vector::operator+
VAdd(u, v) == [k \in 1..Len(u) |-> RAdd(u[k], v[k])]
\* Vector::operator/(double); the callers have excluded |scalar| < EPSILON
VDiv(v, c) == [k \in 1..Len(v) |-> RDiv(v[k], c)]
\* Vector(n, value)
VConst(n, c) == [k \in 1..n |-> c]
\* Matrix::operator*(const Vector&)
MatVec(A, v) == [i \in 1..Len(A) |-> Dot(A[i], v)]

RECURSIVE VMinTo(_, _)
VMinTo(v, k) == IF k = 1 THEN v[1]
                ELSE LET m == VMinTo(v, k - 1) IN IF RLt(v[k], m) THEN v[k] ELSE m
RECURSIVE VMaxTo(_, _)
VMaxTo(v, k) == IF k = 1 THEN v[1]
                ELSE LET m == VMaxTo(v, k - 1) IN IF RLt(m, v[k]) THEN v[k] ELSE m
\* std::min_element / std::max_element over a non-empty vector
VMin(v) == VMinTo(v, Len(v))
VMax(v) == VMaxTo(v, Len(v))

(***************************************************************************)
(* Matrix::cholesky, solveLower, solveUpper, inverse                       *)
(***************************************************************************)
\* One entry (i, j), j <= i, of the factor, given the entries before it in
\* the order of the code's loops.  F is [ok, D, M].
CholEntry(A, F, i, j) ==
    LET sum == VSum([k \in 1..(j - 1) |->
                       RDiv(RMul(F.M[i][k], F.M[j][k]), F.D[k])])
        value == RSub(A[i][j], sum)
    IN  IF i = j
        THEN IF RSign(value) <= 0
             THEN [F EXCEPT !.ok = FALSE]
             ELSE [F EXCEPT !.D[j] = value, !.M[j][j] = value]
        ELSE [F EXCEPT !.M[i][j] = value]

RECURSIVE CholLoop(_, _, _, _)
CholLoop(A, F, i, j) ==
    IF ~F.ok \/ i > Len(A) THEN F
    ELSE LET G == CholEntry(A, F, i, j)
         IN  IF j = i THEN CholLoop(A, G, i + 1, 1) ELSE CholLoop(A, G, i, j + 1)

\* ok = FALSE stands for the runtime_error "Matrix is not positive-definite"
cholesky(A) ==
    CholLoop(A, [ok |-> TRUE,
                 D |-> [k \in 1..Len(A) |-> Zero],
                 M |-> [r \in 1..Len(A) |-> [c \in 1..Len(A) |-> Zero]]], 1, 1)

\* |L(i,i)| < EPSILON for some i: the runtime_error of solveLower / solveUpper
SingularPivot(F) == \E i \in 1..Len(F.D) : LtDec(F.D[i], DecSquare(EPSILON))

\* L y = b by forward substitution; the value is u with u[i] = y[i] * L(i,i)
RECURSIVE solveLowerTo(_, _, _)
solveLowerTo(F, b, i) ==
    IF i = 0 THEN <<>>
    ELSE LET u == solveLowerTo(F, b, i - 1)
             sum == VSum([j \in 1..(i - 1) |-> RDiv(RMul(F.M[i][j], u[j]), F.D[j])])
         IN  Append(u, RSub(b[i], sum))
solveLower(F, b) == solveLowerTo(F, b, Len(b))

\* L^T x = y by backward substitution, from the last row to the first;
\* the value is the function i |-> x[i] on the rows done so far
RECURSIVE solveUpperFrom(_, _, _)
solveUpperFrom(F, u, i) ==
    IF i > Len(u) THEN [k \in {} |-> Zero]
    ELSE LET x == solveUpperFrom(F, u, i + 1)
             sum == VSum([k \in 1..(Len(u) - i) |-> RMul(F.M[i + k][i], x[i + k])])
         IN  [k \in i..Len(u) |-> IF k = i THEN RDiv(RSub(u[i], sum), F.D[i]) ELSE x[k]]
solveUpper(F, u) == LET x == solveUpperFrom(F, u, 1) IN [k \in 1..Len(u) |-> x[k]]

\* Matrix::inverse once cholesky() has ended with F: [ok, inv, what]; ok = FALSE
\* stands for the exception thrown by cholesky, solveLower or solveUpper, and
\* what is its message
inverseFromFactor(A, F) ==
    LET n == Len(A)
    IN  IF ~F.ok
        THEN [ok |-> FALSE, inv |-> <<>>, what |-> "Matrix is not positive-definite"]
        ELSE IF SingularPivot(F)
        THEN [ok |-> FALSE, inv |-> <<>>, what |-> "Matrix is singular (zero diagonal element)"]
        ELSE LET col == [i \in 1..n |->
                           solveUpper(F, solveLower(F, [k \in 1..n |-> IF k = i THEN One ELSE Zero]))]
             IN  [ok |-> TRUE, inv |-> [r \in 1..n |-> [c \in 1..n |-> col[c][r]]], what |-> ""]

\* Matrix::inverse
inverse(A) == inverseFromFactor(A, cholesky(A))

(***************************************************************************)
(* Constraints (constraint.hpp)                                            *)
(***************************************************************************)
FullyInvestedConstraint(tol) == [kind |-> "FullyInvested", tolerance |-> tol]
LongOnlyConstraint(tol) == [kind |-> "LongOnly", tolerance |-> tol]
\* BoxConstraint(double lowerBound, double upperBound [, double tolerance])
BoxConstraint(lo, up, tol) ==
    [kind |-> "Box", uniformBounds |-> TRUE, uniformLower |-> lo, uniformUpper |-> up,
     lowerBounds |-> <<>>, upperBounds |-> <<>>, tolerance |-> tol]
\* BoxConstraint(const std::vector<double>&, const std::vector<double>& [, double tolerance])
BoxConstraintPerAsset(los, ups, tol) ==
    [kind |-> "Box", uniformBounds |-> FALSE, uniformLower |-> Zero, uniformUpper |-> Zero,
     lowerBounds |-> los, upperBounds |-> ups, tolerance |-> tol]

\* FullyInvestedConstraint::isFeasible
FullyInvestedIsFeasible(c, w) ==
    IF Len(w) = 0 THEN FALSE
    ELSE LeDec(RAbs(RSub(VSum(w), One)), c.tolerance)

\* a LongOnlyConstraint::isFeasible without its check for an empty vector
LongOnlyIsFeasibleUnguarded(c, w) == \A i \in 1..Len(w) : ~GtDec(RNeg(w[i]), c.tolerance)

\* LongOnlyConstraint::isFeasible; weights[i] < -tolerance_ is -weights[i] > tolerance_
LongOnlyIsFeasible(c, w) ==
    IF Len(w) = 0 THEN FALSE
    ELSE \A i \in 1..Len(w) : ~GtDec(RNeg(w[i]), c.tolerance)

\* a BoxConstraint::isFeasible that compares with the bounds themselves
BoxIsFeasibleExact(c, w) ==
    /\ Len(w) # 0
    /\ c.uniformBounds \/ Len(w) = Len(c.lowerBounds)
    /\ \A i \in 1..Len(w) :
          LET lower == IF c.uniformBounds THEN c.uniformLower ELSE c.lowerBounds[i]
              upper == IF c.uniformBounds THEN c.uniformUpper ELSE c.upperBounds[i]
          IN  RLe(lower, w[i]) /\ RLe(w[i], upper)

\* BoxConstraint::isFeasible; w < lower - tol is lower - w > tol, w > upper + tol is w - upper > tol
BoxIsFeasible(c, w) ==
    IF Len(w) = 0 THEN FALSE
    ELSE IF c.uniformBounds
         THEN \A i \in 1..Len(w) :
                 ~(\/ GtDec(RSub(c.uniformLower, w[i]), c.tolerance)
                   \/ GtDec(RSub(w[i], c.uniformUpper), c.tolerance))
         ELSE IF Len(w) # Len(c.lowerBounds) THEN FALSE
              ELSE \A i \in 1..Len(w) :
                      ~(\/ GtDec(RSub(c.lowerBounds[i], w[i]), c.tolerance)
                        \/ GtDec(RSub(w[i], c.upperBounds[i]), c.tolerance))

ConstraintIsFeasible(c, w) ==
    CASE c.kind = "FullyInvested" -> FullyInvestedIsFeasible(c, w)
      [] c.kind = "LongOnly" -> LongOnlyIsFeasible(c, w)
      [] c.kind = "Box" -> BoxIsFeasible(c, w)

\* ConstraintSet::isFeasible
isFeasible(cs, w) == \A k \in 1..Len(cs) : ConstraintIsFeasible(cs[k], w)

\* the box the identification loop of hasInfeasibleCombination is left with:
\* the last BoxConstraint of the set (0 when there is none)
RECURSIVE LastBoxTo(_, _)
LastBoxTo(cs, k) ==
    IF k = 0 THEN 0
    ELSE IF cs[k].kind = "Box" THEN k ELSE LastBoxTo(cs, k - 1)

\* ConstraintSet::hasInfeasibleCombination, for numAssets > 0
hasInfeasibleCombination(cs, numAssets) ==
    LET hasFullyInvested == \E k \in 1..Len(cs) : cs[k].kind = "FullyInvested"
        hasLongOnly == \E k \in 1..Len(cs) : cs[k].kind = "LongOnly"
        b == LastBoxTo(cs, Len(cs))
        box == cs[b]
        n == RInt(numAssets)
    IN  IF b = 0 THEN FALSE
        ELSE \/ /\ hasFullyInvested
                /\ IF box.uniformBounds
                   THEN \/ GtDec(RSub(RMul(box.uniformLower, n), One), EPSILON)
                        \/ GtDec(RSub(One, RMul(box.uniformUpper, n)), EPSILON)
                   ELSE \/ Len(box.lowerBounds) # numAssets
                        \/ GtDec(RSub(VSum(box.lowerBounds), One), EPSILON)
                        \/ GtDec(RSub(One, VSum(box.upperBounds)), EPSILON)
             \/ /\ hasLongOnly
                /\ IF box.uniformBounds
                   THEN GtDec(RNeg(box.uniformUpper), EPSILON)
                   ELSE \E i \in 1..Len(box.upperBounds) :
                           GtDec(RNeg(box.upperBounds[i]), EPSILON)

(***************************************************************************)
(* MarkowitzResult and the closed forms of MarkowitzOptimizer              *)
(***************************************************************************)
\* a Sharpe ratio expectedReturn / risk, carried by its sign and its square
SharpeZero == [sgn |-> 0, sq |-> Zero]
SharpeOf(expectedReturn, riskSq) ==
    IF GtDec(riskSq, DecSquare(EPSILON))
    THEN [sgn |-> RSign(expectedReturn),
          sq |-> RDiv(RMul(expectedReturn, expectedReturn), riskSq)]
    ELSE SharpeZero

\* a failure that carries a weight instead of none
FailedWithWeight(message) ==
    [weights |-> <<Zero>>, expectedReturn |-> Zero, riskSq |-> Zero, sharpeRatio |-> SharpeZero,
     converged |-> FALSE, message |-> message]

\* MarkowitzResult{{}, 0.0, 0.0, 0.0, false, message}
Failed(message) ==
    [weights |-> <<>>, expectedReturn |-> Zero, riskSq |-> Zero, sharpeRatio |-> SharpeZero,
     converged |-> FALSE, message |-> message]

\* std::string("Optimization failed: ") + e.what()
OptimizationFailed(what) ==
    IF what = "Matrix is not positive-definite"
    THEN "Optimization failed: Matrix is not positive-definite"
    ELSE "Optimization failed: Matrix is singular (zero diagonal element)"

\* MarkowitzOptimizer::computeVariance
computeVariance(cov, w) == Dot(w, MatVec(cov, w))

\* "Compute portfolio statistics" and the converged result built from them
Statistics(mu, cov, w, message) ==
    LET expectedReturn == Dot(mu, w)
        riskSq == RMax(Zero, computeVariance(cov, w))
    IN  [weights |-> w, expectedReturn |-> expectedReturn, riskSq |-> riskSq,
         sharpeRatio |-> SharpeOf(expectedReturn, riskSq),
         converged |-> TRUE, message |-> message]

\* the outcome of the body of a try block: a result, the weights handed to
\* solveConstrainedQP, or an exception
Done(r) == [tag |-> "done", result |-> r, weights |-> <<>>, what |-> ""]
Fallback(w) == [tag |-> "fallback", result |-> Failed(""), weights |-> w, what |-> ""]
Throw(what) == [tag |-> "throw", result |-> Failed(""), weights |-> <<>>, what |-> what]

\* a handler that catches std::invalid_argument only
TryCatchInvalidArgument(outcome) ==
    IF outcome.tag = "throw" /\ outcome.what = "invalid_argument"
    THEN Done(Failed(OptimizationFailed(outcome.what)))
    ELSE outcome

\* catch (const std::exception& e) of minimumVariance, optimize and targetReturn
TryCatch(outcome) ==
    IF outcome.tag = "throw"
    THEN Done(Failed(OptimizationFailed(outcome.what)))
    ELSE outcome

\* "Apply constraints if any" and the statistics after it
ApplyConstraints(mu, cov, cs, w, message) ==
    IF Len(cs) # 0 /\ ~isFeasible(cs, w)
    THEN Fallback(w)
    ELSE Done(Statistics(mu, cov, w, message))

\* the try block of MarkowitzOptimizer::minimumVariance after the inversion,
\* which has ended with covInv, up to the call of solveConstrainedQP
minimumVarianceFromInverse(mu, cov, cs, covInv) ==
    LET n == Len(mu)
        ones == VConst(n, One)
        covInvOnes == MatVec(covInv.inv, ones)
        denominator == Dot(ones, covInvOnes)
    IN  IF ~covInv.ok THEN Throw(covInv.what)
        ELSE IF LtDec(RAbs(denominator), EPSILON)
        THEN Done(Failed("Singular covariance matrix"))
        ELSE ApplyConstraints(mu, cov, cs, VDiv(covInvOnes, denominator),
                              "Minimum variance portfolio computed")

\* the try block of MarkowitzOptimizer::minimumVariance
minimumVarianceBody(mu, cov, cs) == minimumVarianceFromInverse(mu, cov, cs, inverse(cov))

\* MarkowitzOptimizer::minimumVariance up to the call of solveConstrainedQP
minimumVariance(mu, cov, cs) == TryCatch(minimumVarianceBody(mu, cov, cs))

\* the try block of MarkowitzOptimizer::optimize after the inversion, which
\* has ended with covInv, up to the call of solveConstrainedQP
optimizeFromInverse(mu, cov, cs, lambda, covInv) ==
    LET n == Len(mu)
        ones == VConst(n, One)
        covInvMu == MatVec(covInv.inv, mu)
        covInvOnes == MatVec(covInv.inv, ones)
        onesCovInvMu == Dot(ones, covInvMu)
        onesCovInvOnes == Dot(ones, covInvOnes)
        gamma == RDiv(RSub(One, RMul(lambda, onesCovInvMu)), onesCovInvOnes)
    IN  IF ~covInv.ok THEN Throw(covInv.what)
        ELSE IF LtDec(RAbs(onesCovInvOnes), EPSILON)
        THEN Done(Failed("Singular covariance matrix"))
        ELSE ApplyConstraints(mu, cov, cs,
                              VAdd(VScale(covInvMu, lambda), VScale(covInvOnes, gamma)),
                              "Mean-variance portfolio computed")

\* the try block of MarkowitzOptimizer::optimize, for lambda >= EPSILON
optimizeBody(mu, cov, cs, lambda) == optimizeFromInverse(mu, cov, cs, lambda, inverse(cov))

\* MarkowitzOptimizer::optimize for lambda >= 0, up to the call of solveConstrainedQP
optimize(mu, cov, cs, lambda) ==
    IF LtDec(lambda, EPSILON)
    THEN minimumVariance(mu, cov, cs)
    ELSE TryCatch(optimizeBody(mu, cov, cs, lambda))

\* the try block of MarkowitzOptimizer::targetReturn after the inversion,
\* which has ended with covInv, up to the call of solveConstrainedQPWithTarget
targetReturnFromInverse(mu, cov, cs, r, covInv) ==
    LET n == Len(mu)
        ones == VConst(n, One)
        covInvMu == MatVec(covInv.inv, mu)
        covInvOnes == MatVec(covInv.inv, ones)
        A == Dot(mu, covInvMu)
        B == Dot(mu, covInvOnes)
        C == Dot(ones, covInvOnes)
        det == RSub(RMul(A, C), RMul(B, B))
        a == RDiv(RSub(RMul(C, r), B), det)
        b == RDiv(RSub(A, RMul(B, r)), det)
    IN  IF ~covInv.ok THEN Throw(covInv.what)
        ELSE IF LtDec(RAbs(det), EPSILON)
        THEN Done(Failed("System is singular (returns may be constant)"))
        ELSE ApplyConstraints(mu, cov, cs,
                              VAdd(VScale(covInvMu, a), VScale(covInvOnes, b)),
                              "Target return portfolio computed")

\* the try block of MarkowitzOptimizer::targetReturn after its range check
targetReturnSolve(mu, cov, cs, r) == targetReturnFromInverse(mu, cov, cs, r, inverse(cov))

\* a try block without the range check
targetReturnUnchecked(mu, cov, cs, tol, r) == targetReturnSolve(mu, cov, cs, r)

\* the try block of MarkowitzOptimizer::targetReturn; r < minReturn - tol is
\* minReturn - r > tol, r > maxReturn + tol is r - maxReturn > tol
targetReturnBody(mu, cov, cs, tol, r) ==
    LET minReturn == VMin(mu)
        maxReturn == VMax(mu)
    IN  IF /\ ~DecIsNaN(tol)
           /\ GtDec(RSub(minReturn, r), tol) \/ GtDec(RSub(r, maxReturn), tol)
        THEN Done(Failed("Target return is not achievable"))
        ELSE targetReturnSolve(mu, cov, cs, r)

\* MarkowitzOptimizer::targetReturn up to the call of solveConstrainedQPWithTarget
targetReturn(mu, cov, cs, tol, r) == TryCatch(targetReturnBody(mu, cov, cs, tol, r))

\* the loop body without the renormalization
ProjectClipOnly(w) == [i \in 1..Len(w) |-> IF RSign(w[i]) < 0 THEN Zero ELSE w[i]]

\* the loop body without the clipping
ProjectRenormalizeOnly(w) ==
    LET sum == VSum(w)
    IN  IF GtDec(RAbs(sum), EPSILON) THEN VDiv(w, sum) ELSE VConst(Len(w), Rat(1, Len(w)))

\* one pass of the body of the loop of solveConstrainedQP, before the feasibility check
Project(w) ==
    LET n == Len(w)
        clipped == [i \in 1..n |-> IF RSign(w[i]) < 0 THEN Zero ELSE w[i]]
        sum == VSum(clipped)
    IN  IF GtDec(RAbs(sum), EPSILON)
        THEN VDiv(clipped, sum)
        ELSE VConst(n, Rat(1, n))

\* a validate that looks at the dimensions only
validateDimensions(mu, cov, cs) == Len(mu) # 0 /\ Len(cov) # 0 /\ Len(mu) = Len(cov)

\* MarkowitzOptimizer::validate: TRUE when it returns, FALSE when it throws
\* invalid_argument
validate(mu, cov, cs) ==
    /\ Len(mu) # 0
    /\ Len(cov) # 0
    /\ Len(mu) = Len(cov)
    /\ (Len(cs) # 0 => ~hasInfeasibleCombination(cs, Len(mu)))

(***************************************************************************)
(* BlackLittermanOptimizer (black_litterman.hpp)                           *)
(***************************************************************************)
\* Matrix::transpose, operator*(const Matrix&), operator+ and operator*(double)
Transpose(A) == [c \in 1..Len(A[1]) |-> [r \in 1..Len(A) |-> A[r][c]]]
MatMul(A, B) ==
    [r \in 1..Len(A) |-> [c \in 1..Len(B[1]) |->
        VSum([k \in 1..Len(B) |-> RMul(A[r][k], B[k][c])])]]
MatAdd(A, B) == [r \in 1..Len(A) |-> [c \in 1..Len(A[r]) |-> RAdd(A[r][c], B[r][c])]]
MatScale(A, scalar) == [r \in 1..Len(A) |-> [c \in 1..Len(A[r]) |-> RMul(A[r][c], scalar)]]

\* View::View for a confidence in [0, 1]
View(assets, expectedReturn, confidence) ==
    [assets |-> assets, expectedReturn |-> expectedReturn, confidence |-> confidence]

\* BlackLittermanOptimizer::validate: TRUE when it returns, FALSE when it throws
\* invalid_argument; w < -EPSILON is -w > EPSILON
BlackLittermanValidate(marketWeights, cov, riskAversion, tau) ==
    /\ Len(marketWeights) # 0
    /\ Len(cov) # 0
    /\ Len(marketWeights) = Len(cov)
    /\ RSign(riskAversion) > 0
    /\ RSign(tau) > 0
    /\ ~GtDec(RAbs(RSub(VSum(marketWeights), One)), OneMillionth)
    /\ \A i \in 1..Len(marketWeights) : ~GtDec(RNeg(marketWeights[i]), EPSILON)

\* equilibrium returns without the risk aversion
computeEquilibriumReturnsUnscaled(marketWeights, cov, riskAversion) ==
    MatVec(cov, marketWeights)

\* BlackLittermanOptimizer::computeEquilibriumReturns
computeEquilibriumReturns(marketWeights, cov, riskAversion) ==
    VScale(MatVec(cov, marketWeights), riskAversion)

\* the optimizer the constructor leaves behind
BlackLittermanOptimizer(marketWeights, cov, riskAversion, tau) ==
    [marketWeights |-> marketWeights, covariance |-> cov, riskAversion |-> riskAversion,
     tau |-> tau,
     equilibriumReturns |-> computeEquilibriumReturns(marketWeights, cov, riskAversion),
     views |-> <<>>]

\* an Omega(i, i) that leaves the confidence of the view out
ViewUncertaintyOfPrior(b, view) ==
    Dot(view.assets, VScale(MatVec(b.covariance, view.assets), b.tau))

\* Omega(i, i) of computePosteriorReturns for one view, a confidence above 0
ViewUncertainty(b, view) ==
    LET tauSigmaPRow == VScale(MatVec(b.covariance, view.assets), b.tau)
        viewVariance == Dot(view.assets, tauSigmaPRow)
        confidenceFactor == RSub(RDiv(One, view.confidence), One)
        omega == RMul(viewVariance, confidenceFactor)
    IN  IF LtDec(omega, EPSILON) THEN DecToRat(EPSILON) ELSE omega

\* the matrix P, the vector Q and the diagonal matrix Omega that
\* computePosteriorReturns builds from the views
ViewMatrix(b) == [i \in 1..Len(b.views) |-> b.views[i].assets]
ViewReturns(b) == [i \in 1..Len(b.views) |-> b.views[i].expectedReturn]
ViewUncertainties(b) ==
    [i \in 1..Len(b.views) |-> [j \in 1..Len(b.views) |->
        IF i = j THEN ViewUncertainty(b, b.views[i]) ELSE Zero]]

\* [ok, returns, what] of computePosteriorReturns when an inversion throws
PosteriorThrows(inverted) == [ok |-> FALSE, returns |-> <<>>, what |-> inverted.what]

\* computePosteriorReturns after the inversion of the posterior precision, which
\* has ended with posteriorCovariance
posteriorMean(b, tauSigmaInv, PtOmegaInv, posteriorCovariance) ==
    IF ~posteriorCovariance.ok THEN PosteriorThrows(posteriorCovariance)
    ELSE [ok |-> TRUE,
          returns |-> MatVec(posteriorCovariance.inv,
                             VAdd(MatVec(tauSigmaInv.inv, b.equilibriumReturns),
                                  MatVec(PtOmegaInv, ViewReturns(b)))),
          what |-> ""]

\* computePosteriorReturns after the inversions of tau * Sigma and of Omega,
\* which have ended with tauSigmaInv and OmegaInv
posteriorPrecision(b, tauSigmaInv, OmegaInv) ==
    LET P == ViewMatrix(b)
        PtOmegaInv == MatMul(Transpose(P), OmegaInv.inv)
    IN  IF ~tauSigmaInv.ok THEN PosteriorThrows(tauSigmaInv)
        ELSE IF ~OmegaInv.ok THEN PosteriorThrows(OmegaInv)
        ELSE posteriorMean(b, tauSigmaInv, PtOmegaInv,
                           inverse(MatAdd(tauSigmaInv.inv, MatMul(PtOmegaInv, P))))

\* a computePosteriorReturns that hands back the market weights
computePosteriorReturnsOfWeights(b) ==
    [ok |-> TRUE, returns |-> b.marketWeights, what |-> ""]

\* BlackLittermanOptimizer::computePosteriorReturns: [ok, returns, what];
\* ok = FALSE stands for the exception one of the three inversions throws
computePosteriorReturns(b) ==
    IF Len(b.views) = 0
    THEN [ok |-> TRUE, returns |-> b.equilibriumReturns, what |-> ""]
    ELSE posteriorPrecision(b, inverse(MatScale(b.covariance, b.tau)),
                            inverse(ViewUncertainties(b)))

(***************************************************************************)
(* Inputs                                                                  *)
(***************************************************************************)
MaxConstraints == 1
MaxPoints == 3
MaxViews == 1

Tenths(v) == [k \in 1..Len(v) |-> Rat(v[k], 10)]
Hundredths(A) == [r \in 1..Len(A) |-> [c \in 1..Len(A) |-> Rat(A[r][c], 100)]]

\* covariance matrices, symmetric with positive variances as
\* CovarianceMatrix::validate accepts them
Uncorrelated2 == Hundredths(<<<<8, 0>>, <<0, 2>>>>)
\* the minimum-variance portfolio is short the first asset
Correlated2 == Hundredths(<<<<8, 3>>, <<3, 2>>>>)
Singular2 == Hundredths(<<<<8, 4>>, <<4, 2>>>>)
Indefinite2 == Hundredths(<<<<2, 3>>, <<3, 2>>>>)
Covariance3 == Hundredths(<<<<4, 1, 0>>, <<1, 2, 1>>, <<0, 1, 3>>>>)

Portfolios ==
    {[mu |-> Tenths(<<1, 2>>), cov |-> c] :
        c \in {Uncorrelated2, Correlated2, Singular2, Indefinite2}}
        \cup {[mu |-> Tenths(<<1, 1>>), cov |-> Uncorrelated2],
              [mu |-> Tenths(<<3, 1, 2>>), cov |-> Covariance3],
              [mu |-> Tenths(<<3, 1, 2>>), cov |-> Uncorrelated2]}

\* the constraints handed to the constructor or to addConstraint
Constraints ==
    {LongOnlyConstraint(EPSILON), FullyInvestedConstraint(EPSILON),
     BoxConstraint(Zero, Rat(3, 5), EPSILON)}
\* the constraint sets handed to the constructor; over two or three assets the
\* box of the last one keeps the sum below 1
InitialConstraintSets ==
    {<<>>} \cup {<<c>> : c \in Constraints}
        \cup {<<FullyInvestedConstraint(EPSILON), BoxConstraint(Zero, Rat(3, 10), EPSILON)>>}

\* the lambdas handed to optimize; -1 is also the default argument of
\* BlackLittermanOptimizer::optimize
Lambdas == {RInt(-1), Rat(-1, 2), Zero, Rat(1, 2)}
Targets == {Zero, Rat(1, 10), Rat(3, 20), Rat(1, 4)}
Tolerances == {Dec(-1, 0), Dec(0, 0), Dec(1, 1)}
IterationCaps == {0, 2}

\* the arguments of the BlackLittermanOptimizer constructor
MarketPortfolios ==
    {[marketWeights |-> <<Rat(1, 2), Rat(1, 2)>>, cov |-> c, riskAversion |-> a,
      tau |-> Rat(1, 4)] : c \in {Correlated2, Singular2}, a \in {Zero, RInt(2)}}
        \cup {[marketWeights |-> w, cov |-> Correlated2, riskAversion |-> RInt(2),
                tau |-> Rat(1, 4)] :
                  w \in {<<>>, <<One>>, <<Rat(1, 2), Rat(1, 4)>>, <<Rat(3, 2), Rat(-1, 2)>>}}
        \cup {[marketWeights |-> <<Rat(1, 2), Rat(1, 2)>>, cov |-> Correlated2,
                riskAversion |-> RInt(2), tau |-> Zero]}
\* the views handed to addView; the last one is over three assets
Views ==
    {View(<<Zero, One>>, Rat(29, 100), Rat(1, 2)),
     View(<<One, RInt(-1)>>, Rat(3, 25), Rat(1, 2)),
     View(<<One, Zero, Zero>>, Rat(1, 5), Rat(1, 2))}

(***************************************************************************)
(* The optimizer and the call in progress.  The caller holds one optimizer: *)
(* a MarkowitzOptimizer, or a BlackLittermanOptimizer, and then the         *)
(* Markowitz variables describe the MarkowitzOptimizer that                 *)
(* BlackLittermanOptimizer::optimize last constructed.                      *)
(***************************************************************************)
VARIABLES
    bl,                \* the BlackLittermanOptimizer, or NoBlackLitterman
    expectedReturns,   \* MarkowitzOptimizer::expectedReturns_
    covariance,        \* MarkowitzOptimizer::covariance_
    constraints,       \* MarkowitzOptimizer::constraints_
    maxIterations,     \* MarkowitzOptimizer::maxIterations_
    tolerance,         \* MarkowitzOptimizer::tolerance_
    pc,                \* "idle", "solveConstrainedQP" or "efficientFrontier"
    call,              \* the public call in progress or last completed
    raised,            \* the exception the last public call raised, or "none"
    weights,           \* solveConstrainedQP: weights
    iter,              \* solveConstrainedQP: iter
    path,              \* how the last minimumVariance / optimize / targetReturn ended
    result,            \* the MarkowitzResult it returned
    fr,                \* efficientFrontier: numPoints, i, minReturn, maxReturn
    frontier,          \* efficientFrontier: frontier
    constraintSet,     \* a ConstraintSet the caller holds outside any optimizer
    covarianceMatrix,  \* a CovarianceMatrix the caller holds outside any optimizer
    answer             \* what the last call on one of these two returned

optimizer == <<expectedReturns, covariance, constraints, maxIterations, tolerance>>
\* the objects of the constraint and covariance layers
values == <<constraintSet, covarianceMatrix, answer>>
vars == <<bl, expectedReturns, covariance, constraints, maxIterations, tolerance,
          pc, call, raised, weights, iter, path, result, fr, frontier,
          constraintSet, covarianceMatrix, answer>>

NoBlackLitterman ==
    [marketWeights |-> <<>>, covariance |-> <<>>, riskAversion |-> Zero, tau |-> Zero,
     equilibriumReturns |-> <<>>, views |-> <<>>]
NoResult == [converged |-> FALSE, message |-> "no result"]
NoFrontier == [stage |-> "none", numPoints |-> 0, i |-> 0, minReturn |-> Zero, maxReturn |-> Zero]
NoCovarianceMatrix == [matrix |-> <<>>, labels |-> <<>>]
NoAnswer == "none"
\* the caller holds no ConstraintSet and no CovarianceMatrix of its own
NoValues == constraintSet = <<>> /\ covarianceMatrix = NoCovarianceMatrix /\ answer = NoAnswer

\* MarkowitzOptimizer(expectedReturns, covariance [, constraints]); a construction
\* that validate() rejects raises invalid_argument and yields no optimizer
DefaultMaxIterations == 1000
DefaultTolerance == Dec(1, 8)
InitMarkowitz ==
    /\ \E p \in Portfolios, cs \in InitialConstraintSets :
          /\ call = [op |-> "MarkowitzOptimizer", arg |-> [mu |-> p.mu, cov |-> p.cov, cs |-> cs]]
          /\ IF validate(p.mu, p.cov, cs)
             THEN /\ raised = "none"
                  /\ expectedReturns = p.mu
                  /\ covariance = p.cov
                  /\ constraints = cs
             ELSE /\ raised = "invalid_argument"
                  /\ expectedReturns = <<>>
                  /\ covariance = <<>>
                  /\ constraints = <<>>
    /\ bl = NoBlackLitterman

\* BlackLittermanOptimizer(marketWeights, covariance, riskAversion, tau); a
\* construction that validate() rejects raises invalid_argument and yields no
\* optimizer
InitBlackLitterman ==
    /\ \E m \in MarketPortfolios :
          /\ call = [op |-> "BlackLittermanOptimizer", arg |-> m]
          /\ IF BlackLittermanValidate(m.marketWeights, m.cov, m.riskAversion, m.tau)
             THEN /\ raised = "none"
                  /\ bl = BlackLittermanOptimizer(m.marketWeights, m.cov, m.riskAversion, m.tau)
             ELSE /\ raised = "invalid_argument"
                  /\ bl = NoBlackLitterman
    /\ expectedReturns = <<>>
    /\ covariance = <<>>
    /\ constraints = <<>>

Init ==
    /\ InitMarkowitz \/ InitBlackLitterman
    /\ maxIterations = DefaultMaxIterations
    /\ tolerance = DefaultTolerance
    /\ pc = "idle"
    /\ weights = <<>>
    /\ iter = 0
    /\ path = "none"
    /\ result = NoResult
    /\ fr = NoFrontier
    /\ frontier = <<>>
    /\ NoValues

\* no call on the MarkowitzOptimizer the caller holds is in progress
MarkowitzIdle == pc = "idle" /\ bl = NoBlackLitterman /\ expectedReturns # <<>>
\* no call on the BlackLittermanOptimizer the caller holds is in progress
BlackLittermanIdle == pc = "idle" /\ bl # NoBlackLitterman

\* the return of minimumVariance / optimize / targetReturn with result r, to the
\* public caller or into efficientFrontier, whose locals are ctx and front
Return(r, ctx, front) ==
    /\ result' = r
    /\ IF ctx.stage = "none"
       THEN pc' = "idle" /\ fr' = NoFrontier /\ frontier' = front
       ELSE IF ctx.stage = "minimumVariance"
       THEN IF ~r.converged
            THEN pc' = "idle" /\ fr' = NoFrontier /\ frontier' = front
            ELSE /\ pc' = "efficientFrontier"
                 /\ fr' = [ctx EXCEPT !.stage = "targetReturn", !.i = 0,
                                      !.minReturn = r.expectedReturn,
                                      !.maxReturn = VMax(expectedReturns)]
                 /\ frontier' = front
       ELSE /\ pc' = "efficientFrontier"
            /\ fr' = [ctx EXCEPT !.i = @ + 1]
            /\ frontier' = IF r.converged THEN Append(front, r) ELSE front

\* the public call ends without a result: what is the exception it raised,
\* or "none"
Raise(what) ==
    /\ raised' = what
    /\ pc' = "idle"
    /\ weights' = <<>>
    /\ iter' = 0
    /\ path' = "none"
    /\ result' = NoResult
    /\ fr' = NoFrontier
    /\ frontier' = <<>>

\* a closed form that enters the loop of solveConstrainedQP with the iter an
\* earlier call left behind
BeginWithoutReset(outcome, ctx, front) ==
    IF outcome.tag = "throw"
    THEN Raise(outcome.what)
    ELSE /\ raised' = "none"
         /\ IF outcome.tag = "fallback"
            THEN /\ pc' = "solveConstrainedQP"
                 /\ weights' = outcome.weights
                 /\ iter' = iter
                 /\ path' = "fallback"
                 /\ result' = NoResult
                 /\ fr' = ctx
                 /\ frontier' = front
            ELSE /\ weights' = <<>>
                 /\ iter' = 0
                 /\ path' = "closed"
                 /\ Return(outcome.result, ctx, front)

\* the end of a closed form: return, enter the loop of solveConstrainedQP, or
\* leave the public call with the exception no handler caught
Begin(outcome, ctx, front) ==
    IF outcome.tag = "throw"
    THEN Raise(outcome.what)
    ELSE /\ raised' = "none"
         /\ IF outcome.tag = "fallback"
            THEN /\ pc' = "solveConstrainedQP"
                 /\ weights' = outcome.weights
                 /\ iter' = 0
                 /\ path' = "fallback"
                 /\ result' = NoResult
                 /\ fr' = ctx
                 /\ frontier' = front
            ELSE /\ weights' = <<>>
                 /\ iter' = 0
                 /\ path' = "closed"
                 /\ Return(outcome.result, ctx, front)

\* a solveConstrainedQP that reports whether its loop reached feasibility
ConstrainedResultIfFeasible(w) ==
    [Statistics(expectedReturns, covariance, w, "Constrained portfolio computed")
        EXCEPT !.converged = isFeasible(constraints, w)]

\* the result solveConstrainedQP builds after its loop
ConstrainedResult(w) ==
    Statistics(expectedReturns, covariance, w, "Constrained portfolio computed")

\* an iteration of a loop whose counter starts again instead of reaching
\* maxIterations
QPIterateRestarting ==
    /\ pc = "solveConstrainedQP"
    /\ iter < maxIterations
    /\ LET w == Project(weights)
       IN  /\ weights' = w
           /\ IF isFeasible(constraints, w)
              THEN /\ iter' = iter
                   /\ Return(ConstrainedResult(w), fr, frontier)
              ELSE /\ iter' = (iter + 1) % maxIterations
                   /\ UNCHANGED <<pc, result, fr, frontier>>
    /\ UNCHANGED <<bl, optimizer, call, raised, path>>
    /\ UNCHANGED values

\* one iteration of the loop of solveConstrainedQP; on feasibility it breaks
\* and the function returns
QPIterate ==
    /\ pc = "solveConstrainedQP"
    /\ iter < maxIterations
    /\ LET w == Project(weights)
       IN  /\ weights' = w
           /\ IF isFeasible(constraints, w)
              THEN /\ iter' = iter
                   /\ Return(ConstrainedResult(w), fr, frontier)
              ELSE /\ iter' = iter + 1
                   /\ UNCHANGED <<pc, result, fr, frontier>>
    /\ UNCHANGED <<bl, optimizer, call, raised, path>>
    /\ UNCHANGED values

\* the loop ends on iter = maxIterations and the function returns
QPExhausted ==
    /\ pc = "solveConstrainedQP"
    /\ ~(iter < maxIterations)
    /\ Return(ConstrainedResult(weights), fr, frontier)
    /\ UNCHANGED <<bl, optimizer, call, raised, weights, iter, path>>
    /\ UNCHANGED values

MinimumVarianceCall ==
    /\ MarkowitzIdle
    /\ call' = [op |-> "minimumVariance", arg |-> <<>>]
    /\ Begin(minimumVariance(expectedReturns, covariance, constraints), NoFrontier, <<>>)
    /\ UNCHANGED <<bl, optimizer>>
    /\ UNCHANGED values

OptimizeCall(lambda) ==
    /\ MarkowitzIdle
    /\ call' = [op |-> "optimize", arg |-> lambda]
    /\ IF RSign(lambda) < 0
       THEN Raise("invalid_argument")
       ELSE Begin(optimize(expectedReturns, covariance, constraints, lambda),
                  NoFrontier, <<>>)
    /\ UNCHANGED <<bl, optimizer>>
    /\ UNCHANGED values

TargetReturnCall(r) ==
    /\ MarkowitzIdle
    /\ call' = [op |-> "targetReturn", arg |-> r]
    /\ Begin(targetReturn(expectedReturns, covariance, constraints, tolerance, r),
             NoFrontier, <<>>)
    /\ UNCHANGED <<bl, optimizer>>
    /\ UNCHANGED values

\* efficientFrontier up to its call of minimumVariance
EfficientFrontierCall(numPoints) ==
    /\ MarkowitzIdle
    /\ call' = [op |-> "efficientFrontier", arg |-> numPoints]
    /\ IF numPoints < 2
       THEN Raise("invalid_argument")
       ELSE Begin(minimumVariance(expectedReturns, covariance, constraints),
                  [NoFrontier EXCEPT !.stage = "minimumVariance", !.numPoints = numPoints],
                  <<>>)
    /\ UNCHANGED <<bl, optimizer>>
    /\ UNCHANGED values

\* targets that count the points from 1
FrontierTargetFromOne(f) ==
    LET t == Rat(f.i + 1, f.numPoints - 1)
    IN  RAdd(f.minReturn, RMul(t, RSub(f.maxReturn, f.minReturn)))

\* targetRet of iteration i of the loop of efficientFrontier
FrontierTarget(f) ==
    LET t == Rat(f.i, f.numPoints - 1)
    IN  RAdd(f.minReturn, RMul(t, RSub(f.maxReturn, f.minReturn)))

\* one iteration of the loop of efficientFrontier up to the return of targetReturn
FrontierPoint ==
    /\ pc = "efficientFrontier"
    /\ fr.i < fr.numPoints
    /\ Begin(targetReturn(expectedReturns, covariance, constraints, tolerance,
                          FrontierTarget(fr)), fr, frontier)
    /\ UNCHANGED <<bl, optimizer, call>>
    /\ UNCHANGED values

\* the loop of efficientFrontier ends and the frontier is returned
FrontierDone ==
    /\ pc = "efficientFrontier"
    /\ ~(fr.i < fr.numPoints)
    /\ pc' = "idle"
    /\ fr' = NoFrontier
    /\ UNCHANGED <<bl, optimizer, call, raised, weights, iter, path, result, frontier>>
    /\ UNCHANGED values

\* a call that changes the optimizer: no call has produced a result since
Reconfigured(name, arg, what) ==
    /\ MarkowitzIdle
    /\ call' = [op |-> name, arg |-> arg]
    /\ Raise(what)
    /\ UNCHANGED values

SetMaxIterations(maxIter) ==
    /\ Reconfigured("setMaxIterations", maxIter,
                    IF maxIter = 0 THEN "invalid_argument" ELSE "none")
    /\ maxIterations' = IF maxIter = 0 THEN maxIterations ELSE maxIter
    /\ UNCHANGED <<bl, expectedReturns, covariance, constraints, tolerance>>

\* tol <= 0.0, which is false of NaN
SetTolerance(tol) ==
    /\ Reconfigured("setTolerance", tol,
                    IF ~DecIsNaN(tol) /\ ~DecPositive(tol) THEN "invalid_argument" ELSE "none")
    /\ tolerance' = IF ~DecIsNaN(tol) /\ ~DecPositive(tol) THEN tolerance ELSE tol
    /\ UNCHANGED <<bl, expectedReturns, covariance, constraints, maxIterations>>

\* MarkowitzOptimizer::addConstraint and ConstraintSet::add, for a non-null
\* pointer, on an optimizer that holds fewer than bound constraints
AddConstraintWithin(c, bound) ==
    /\ Len(constraints) < bound
    /\ Reconfigured("addConstraint", c, "none")
    /\ constraints' = Append(constraints, c)
    /\ UNCHANGED <<bl, expectedReturns, covariance, maxIterations, tolerance>>

AddConstraint(c) == AddConstraintWithin(c, MaxConstraints)

\* BlackLittermanOptimizer::optimize after computePosteriorReturns, which has
\* ended with posteriorReturns: a MarkowitzOptimizer over them, without
\* constraints, and its optimize
OptimizePosterior(lambda, posteriorReturns) ==
    IF ~posteriorReturns.ok
    THEN Raise(posteriorReturns.what) /\ UNCHANGED optimizer
    ELSE /\ expectedReturns' = posteriorReturns.returns
         /\ covariance' = bl.covariance
         /\ constraints' = <<>>
         /\ maxIterations' = DefaultMaxIterations
         /\ tolerance' = DefaultTolerance
         /\ Begin(optimize(posteriorReturns.returns, bl.covariance, <<>>, lambda),
                  NoFrontier, <<>>)

\* BlackLittermanOptimizer::optimize
BlackLittermanOptimize(lambda) ==
    /\ BlackLittermanIdle
    /\ call' = [op |-> "BlackLittermanOptimizer::optimize", arg |-> lambda]
    /\ OptimizePosterior(IF RSign(lambda) < 0 THEN bl.riskAversion ELSE lambda,
                         computePosteriorReturns(bl))
    /\ answer' = NoAnswer
    /\ UNCHANGED <<bl, constraintSet, covarianceMatrix>>

\* BlackLittermanOptimizer::computePosteriorReturns, called by the holder of the
\* optimizer: the answer is [ok, returns, what]
ComputePosteriorReturnsCall ==
    /\ BlackLittermanIdle
    /\ call' = [op |-> "computePosteriorReturns", arg |-> <<>>]
    /\ answer' = computePosteriorReturns(bl)
    /\ Raise(IF answer'.ok THEN "none" ELSE answer'.what)
    /\ UNCHANGED <<bl, optimizer, constraintSet, covarianceMatrix>>

\* an addView that stores the view whatever its length
AddViewUnchecked(view) ==
    /\ BlackLittermanIdle
    /\ Len(bl.views) < MaxViews
    /\ call' = [op |-> "addView", arg |-> view]
    /\ Raise("none")
    /\ bl' = [bl EXCEPT !.views = Append(@, view)]
    /\ answer' = NoAnswer
    /\ UNCHANGED <<optimizer, constraintSet, covarianceMatrix>>

\* BlackLittermanOptimizer::addView
AddView(view) ==
    /\ BlackLittermanIdle
    /\ call' = [op |-> "addView", arg |-> view]
    /\ IF Len(view.assets) # Len(bl.marketWeights)
       THEN Raise("invalid_argument") /\ UNCHANGED bl
       ELSE /\ Len(bl.views) < MaxViews
            /\ Raise("none")
            /\ bl' = [bl EXCEPT !.views = Append(@, view)]
    /\ answer' = NoAnswer
    /\ UNCHANGED <<optimizer, constraintSet, covarianceMatrix>>

\* BlackLittermanOptimizer::clearViews
ClearViews ==
    /\ BlackLittermanIdle
    /\ call' = [op |-> "clearViews", arg |-> <<>>]
    /\ Raise("none")
    /\ bl' = [bl EXCEPT !.views = <<>>]
    /\ answer' = NoAnswer
    /\ UNCHANGED <<optimizer, constraintSet, covarianceMatrix>>

Next ==
    \/ MinimumVarianceCall
    \/ \E lambda \in Lambdas : OptimizeCall(lambda)
    \/ \E r \in Targets : TargetReturnCall(r)
    \/ \E numPoints \in 0..MaxPoints : EfficientFrontierCall(numPoints)
    \/ FrontierPoint
    \/ FrontierDone
    \/ QPIterate
    \/ QPExhausted
    \/ \E maxIter \in IterationCaps : SetMaxIterations(maxIter)
    \/ \E tol \in Tolerances : SetTolerance(tol)
    \/ \E c \in Constraints : AddConstraint(c)
    \/ \E lambda \in Lambdas : BlackLittermanOptimize(lambda)
    \/ ComputePosteriorReturnsCall
    \/ \E view \in Views : AddView(view)
    \/ ClearViews

Spec == Init /\ [][Next]_vars

(***************************************************************************)
(* A MarkowitzOptimizer over the correlated covariance, every call of      *)
(* which runs to its end: the loops of solveConstrainedQP and of           *)
(* efficientFrontier are taken as long as they can be                      *)
(***************************************************************************)
\* MarkowitzOptimizer(expectedReturns, covariance [, constraints]) over the
\* covariance whose minimum-variance portfolio is short the first asset
InitCorrelated == Init /\ call.op = "MarkowitzOptimizer" /\ call.arg.cov = Correlated2

NextMarkowitz ==
    \/ MinimumVarianceCall
    \/ \E lambda \in Lambdas : OptimizeCall(lambda)
    \/ \E r \in Targets : TargetReturnCall(r)
    \/ \E numPoints \in 0..MaxPoints : EfficientFrontierCall(numPoints)
    \/ FrontierPoint
    \/ FrontierDone
    \/ QPIterate
    \/ QPExhausted
    \/ \E maxIter \in IterationCaps : SetMaxIterations(maxIter)
    \/ \E tol \in Tolerances \cup {NaNDec} : SetTolerance(tol)
    \/ \E c \in Constraints : AddConstraint(c)

\* the calls are synchronous: a loop that can take a step takes it
\* what a call in progress does next, whichever it is
CallStep == QPIterate \/ QPExhausted \/ FrontierPoint \/ FrontierDone

\* The thread that made a call goes on running it: WF_vars(CallStep), with
\* ENABLED <<CallStep>>_vars written out as pc # "idle". Under
\* pc = "solveConstrainedQP" the guards of QPIterate and QPExhausted are
\* complementary, under pc = "efficientFrontier" those of FrontierPoint and
\* FrontierDone, and each of the four changes pc, iter or fr.
CallGoesOn == []<>(pc = "idle") \/ []<><<CallStep>>_vars

SpecMarkowitz == InitCorrelated /\ [][NextMarkowitz]_vars /\ CallGoesOn

(***************************************************************************)
(* A ConstraintSet of the caller's own (constraint.hpp): add, isFeasible   *)
(* on the set and on its members, hasInfeasibleCombination                 *)
(***************************************************************************)
MaxSetSize == 3
MaxAssets == 3

\* the constraints handed to ConstraintSet::add, each as its constructor accepts it
ConstraintPool ==
    {FullyInvestedConstraint(EPSILON), FullyInvestedConstraint(Dec(5, 1)),
     LongOnlyConstraint(EPSILON),
     BoxConstraint(Zero, Rat(1, 5), EPSILON), BoxConstraint(Rat(2, 5), Rat(3, 5), Dec(1, 1)),
     BoxConstraint(RInt(-1), Rat(-1, 10), EPSILON),
     BoxConstraintPerAsset(<<Zero, Zero>>, <<Rat(3, 10), Rat(1, 2)>>, EPSILON)}

\* the weight vectors handed to isFeasible
WeightVectors ==
    {<<>>, <<Rat(3, 10), Rat(1, 2)>>, <<Rat(6, 5), Rat(-1, 5)>>,
     <<Rat(1, 5), Rat(1, 5), Rat(1, 5)>>, <<Rat(1, 3), Rat(1, 3), Rat(1, 3)>>,
     <<Rat(-1, 5), Rat(-1, 5), Rat(-1, 5)>>}

\* the caller holds no optimizer
NoOptimizer ==
    /\ bl = NoBlackLitterman
    /\ expectedReturns = <<>>
    /\ covariance = <<>>
    /\ constraints = <<>>
    /\ maxIterations = DefaultMaxIterations
    /\ tolerance = DefaultTolerance
    /\ pc = "idle"
    /\ weights = <<>>
    /\ iter = 0
    /\ path = "none"
    /\ result = NoResult
    /\ fr = NoFrontier
    /\ frontier = <<>>

\* a call on the ConstraintSet or the CovarianceMatrix: what is the exception
\* it raised, or "none"
ValueCall(op, arg, what) ==
    /\ call' = [op |-> op, arg |-> arg]
    /\ raised' = what
    /\ UNCHANGED <<bl, optimizer, pc, weights, iter, path, result, fr, frontier>>

\* ConstraintSet()
InitConstraintSet ==
    /\ NoOptimizer
    /\ NoValues
    /\ call = [op |-> "ConstraintSet", arg |-> <<>>]
    /\ raised = "none"

\* ConstraintSet::add, for a non-null pointer
ConstraintSetAdd(c) ==
    /\ Len(constraintSet) < MaxSetSize
    /\ ValueCall("ConstraintSet::add", c, "none")
    /\ constraintSet' = Append(constraintSet, c)
    /\ answer' = NoAnswer
    /\ UNCHANGED covarianceMatrix

\* getConstraints()[k - 1]->isFeasible(w)
MemberIsFeasibleCall(k, w) ==
    /\ ValueCall("Constraint::isFeasible", [constraint |-> constraintSet[k], weights |-> w],
                 "none")
    /\ answer' = ConstraintIsFeasible(constraintSet[k], w)
    /\ UNCHANGED <<constraintSet, covarianceMatrix>>

\* ConstraintSet::isFeasible
IsFeasibleCall(w) ==
    /\ ValueCall("ConstraintSet::isFeasible", w, "none")
    /\ answer' = isFeasible(constraintSet, w)
    /\ UNCHANGED <<constraintSet, covarianceMatrix>>

\* ConstraintSet::hasInfeasibleCombination
HasInfeasibleCombinationCall(numAssets) ==
    /\ IF numAssets = 0
       THEN /\ ValueCall("hasInfeasibleCombination", numAssets, "invalid_argument")
            /\ answer' = NoAnswer
       ELSE /\ ValueCall("hasInfeasibleCombination", numAssets, "none")
            /\ answer' = hasInfeasibleCombination(constraintSet, numAssets)
    /\ UNCHANGED <<constraintSet, covarianceMatrix>>

NextConstraintSet ==
    \/ \E c \in ConstraintPool : ConstraintSetAdd(c)
    \/ \E k \in 1..Len(constraintSet), w \in WeightVectors : MemberIsFeasibleCall(k, w)
    \/ \E w \in WeightVectors : IsFeasibleCall(w)
    \/ \E numAssets \in 0..MaxAssets : HasInfeasibleCombinationCall(numAssets)

SpecConstraintSet == InitConstraintSet /\ [][NextConstraintSet]_vars

(***************************************************************************)
(* A MarkowitzOptimizer that is handed constraints after its construction  *)
(***************************************************************************)
InitMarkowitzOnly == Init /\ call.op = "MarkowitzOptimizer"

NextAddConstraint == \E c \in ConstraintPool : AddConstraintWithin(c, MaxSetSize)

SpecAddConstraint == InitMarkowitzOnly /\ [][NextAddConstraint]_vars

(***************************************************************************)
(* A CovarianceMatrix of the caller's own (covariance_matrix.hpp): its      *)
(* constructors, the writes through operator() and data(), setLabels       *)
(***************************************************************************)
\* a quiet NaN, carried as 0/0
NaN == <<0, 0>>

\* CovarianceMatrix::validate: TRUE when it returns, FALSE when it throws
\* invalid_argument; diff > EPSILON * max(1, scale) is diff / max(1, scale) > EPSILON
CovarianceMatrixValidate(M) ==
    /\ Len(M) # 0
    /\ Len(M[1]) = Len(M)
    /\ \A i \in 1..Len(M), j \in 1..Len(M) : M[i][j][2] # 0
    /\ \A i \in 1..Len(M) : RSign(M[i][i]) > 0
    /\ \A i \in 1..Len(M), j \in 1..Len(M) :
          i < j => LET diff == RAbs(RSub(M[i][j], M[j][i]))
                       scale == RMax(RAbs(M[i][j]), RAbs(M[j][i]))
                   IN  ~GtDec(RDiv(diff, RMax(One, scale)), EPSILON)

\* the matrices handed to the constructors and assigned through data(): a
\* covariance, an asymmetric one, one with a zero variance, one with a NaN, a
\* 1x2 matrix and the empty matrix
Matrices ==
    {Hundredths(<<<<4, 1>>, <<1, 9>>>>), Hundredths(<<<<4, 1>>, <<2, 9>>>>),
     Hundredths(<<<<0, 1>>, <<1, 9>>>>), <<<<Rat(1, 25), NaN>>, <<NaN, Rat(9, 100)>>>>,
     <<<<Rat(1, 25), Rat(1, 100)>>>>, <<>>}
\* the labels handed to the constructor and to setLabels
LabelSets == {<<>>, <<"A">>, <<"A", "B">>}
\* the values written through operator()
EntryValues == {Rat(1, 100), Zero, NaN}

\* CovarianceMatrix(), which validates nothing, and CovarianceMatrix(matrix [, labels])
InitCovarianceMatrix ==
    /\ NoOptimizer
    /\ constraintSet = <<>>
    /\ answer = NoAnswer
    /\ \/ /\ call = [op |-> "CovarianceMatrix()", arg |-> <<>>]
          /\ raised = "none"
          /\ covarianceMatrix = NoCovarianceMatrix
       \/ \E M \in Matrices, labels \in LabelSets :
             /\ call = [op |-> "CovarianceMatrix", arg |-> [matrix |-> M, labels |-> labels]]
             /\ IF (Len(labels) # 0 /\ Len(labels) # Len(M)) \/ ~CovarianceMatrixValidate(M)
                THEN raised = "invalid_argument" /\ covarianceMatrix = NoCovarianceMatrix
                ELSE raised = "none" /\ covarianceMatrix = [matrix |-> M, labels |-> labels]

\* the constructor has left a CovarianceMatrix behind
CovarianceMatrixHeld == ~(call.op = "CovarianceMatrix" /\ raised # "none")

\* cov(i - 1, j - 1) = value, through double& operator()(size_t, size_t)
ElementWrite(i, j, value) ==
    /\ CovarianceMatrixHeld
    /\ ValueCall("operator()", <<i, j, value>>, "none")
    /\ covarianceMatrix' = [covarianceMatrix EXCEPT !.matrix[i][j] = value]
    /\ UNCHANGED <<constraintSet, answer>>

\* cov.data() = M, through core::Matrix& data()
DataWrite(M) ==
    /\ CovarianceMatrixHeld
    /\ ValueCall("data", M, "none")
    /\ covarianceMatrix' = [covarianceMatrix EXCEPT !.matrix = M]
    /\ UNCHANGED <<constraintSet, answer>>

\* CovarianceMatrix::setLabels
SetLabels(labels) ==
    /\ CovarianceMatrixHeld
    /\ IF Len(labels) # 0 /\ Len(labels) # Len(covarianceMatrix.matrix)
       THEN ValueCall("setLabels", labels, "invalid_argument") /\ UNCHANGED covarianceMatrix
       ELSE /\ ValueCall("setLabels", labels, "none")
            /\ covarianceMatrix' = [covarianceMatrix EXCEPT !.labels = labels]
    /\ UNCHANGED <<constraintSet, answer>>

NextCovarianceMatrix ==
    \/ \E i \in 1..Len(covarianceMatrix.matrix) :
          \E j \in 1..Len(covarianceMatrix.matrix[i]), value \in EntryValues :
             ElementWrite(i, j, value)
    \/ \E M \in Matrices : DataWrite(M)
    \/ \E labels \in LabelSets : SetLabels(labels)

SpecCovarianceMatrix == InitCovarianceMatrix /\ [][NextCovarianceMatrix]_vars

(***************************************************************************)
(* Matrix::cholesky and Matrix::inverse, called on the matrix that a       *)
(* CovarianceMatrix holds (cov.data().cholesky(), cov.data().inverse())    *)
(***************************************************************************)
\* Matrix::isSquare: rows_ == cols_, and a matrix of no rows has no columns
isSquare(A) == IF Len(A) = 0 THEN TRUE ELSE Len(A[1]) = Len(A)

\* the matrices handed to the constructor and assigned through data(): two
\* covariances, an asymmetric matrix, one with a zero variance, a symmetric
\* matrix with positive variances that is indefinite, a 1x2 matrix and the
\* empty matrix
FiniteMatrices ==
    {Hundredths(<<<<4, 1>>, <<1, 9>>>>), Correlated2,
     Hundredths(<<<<4, 1>>, <<2, 9>>>>), Hundredths(<<<<0, 1>>, <<1, 9>>>>),
     Indefinite2, <<<<Rat(1, 25), Rat(1, 100)>>>>, <<>>}
\* the values written through operator()
FiniteEntries == {Rat(3, 100), Zero}

\* CovarianceMatrix() and CovarianceMatrix(matrix), without labels
InitFactorization ==
    /\ NoOptimizer
    /\ constraintSet = <<>>
    /\ answer = NoAnswer
    /\ \/ /\ call = [op |-> "CovarianceMatrix()", arg |-> <<>>]
          /\ raised = "none"
          /\ covarianceMatrix = NoCovarianceMatrix
       \/ \E M \in FiniteMatrices :
             /\ call = [op |-> "CovarianceMatrix", arg |-> [matrix |-> M, labels |-> <<>>]]
             /\ IF ~CovarianceMatrixValidate(M)
                THEN raised = "invalid_argument" /\ covarianceMatrix = NoCovarianceMatrix
                ELSE raised = "none" /\ covarianceMatrix = [matrix |-> M, labels |-> <<>>]

\* cov.data().cholesky(): the answer is the factor [ok, D, M] when it returns
CholeskyCall ==
    /\ CovarianceMatrixHeld
    /\ LET A == covarianceMatrix.matrix
       IN  IF ~isSquare(A)
           THEN ValueCall("cholesky", <<>>, "invalid_argument") /\ answer' = NoAnswer
           ELSE IF ~cholesky(A).ok
           THEN ValueCall("cholesky", <<>>, "runtime_error") /\ answer' = NoAnswer
           ELSE ValueCall("cholesky", <<>>, "none") /\ answer' = cholesky(A)
    /\ UNCHANGED <<constraintSet, covarianceMatrix>>

\* cov.data().inverse(): the answer is the inverse when it returns
InverseCall ==
    /\ CovarianceMatrixHeld
    /\ LET A == covarianceMatrix.matrix
       IN  IF ~isSquare(A)
           THEN ValueCall("inverse", <<>>, "invalid_argument") /\ answer' = NoAnswer
           ELSE IF ~inverse(A).ok
           THEN ValueCall("inverse", <<>>, "runtime_error") /\ answer' = NoAnswer
           ELSE ValueCall("inverse", <<>>, "none") /\ answer' = inverse(A).inv
    /\ UNCHANGED <<constraintSet, covarianceMatrix>>

NextFactorization ==
    \/ \E i \in 1..Len(covarianceMatrix.matrix) :
          \E j \in 1..Len(covarianceMatrix.matrix[i]), value \in FiniteEntries :
             ElementWrite(i, j, value)
    \/ \E M \in FiniteMatrices : DataWrite(M)
    \/ CholeskyCall
    \/ InverseCall

SpecFactorization == InitFactorization /\ [][NextFactorization]_vars

(***************************************************************************)
(* A BlackLittermanOptimizer that is handed absolute views                 *)
(* (black_litterman.hpp): addView, clearViews, computePosteriorReturns     *)
(***************************************************************************)
\* the arguments of the constructor, each as validate() accepts it; the first
\* is the one of the test HighConfidenceViewDominates
ConfidentMarkets ==
    {[marketWeights |-> <<Rat(1, 2), Rat(1, 2)>>,
      cov |-> <<<<Rat(1, 25), Rat(1, 100)>>, <<Rat(1, 100), Rat(9, 400)>>>>,
      riskAversion |-> Rat(5, 2), tau |-> Rat(1, 40)],
     [marketWeights |-> <<Rat(1, 2), Rat(1, 2)>>, cov |-> Uncorrelated2,
      riskAversion |-> RInt(2), tau |-> Rat(1, 4)],
     [marketWeights |-> <<Rat(1, 4), Rat(3, 4)>>, cov |-> Correlated2,
      riskAversion |-> RInt(3), tau |-> Rat(1, 20)],
     [marketWeights |-> <<Rat(1, 2), Rat(1, 2)>>, cov |-> Singular2,
      riskAversion |-> RInt(2), tau |-> Rat(1, 4)]}

\* View(e_i, expectedReturn, confidence): a weight of 1 on one asset
AbsoluteViews ==
    {View(assets, q, confidence) :
        assets \in {<<One, Zero>>, <<Zero, One>>},
        q \in {Rat(1, 10), Rat(3, 20), Rat(1, 2), Rat(-1, 5)},
        confidence \in {Rat(99, 100), Rat(1, 2)}}

InitHighConfidence ==
    /\ \E m \in ConfidentMarkets :
          /\ call = [op |-> "BlackLittermanOptimizer", arg |-> m]
          /\ bl = BlackLittermanOptimizer(m.marketWeights, m.cov, m.riskAversion, m.tau)
    /\ raised = "none"
    /\ expectedReturns = <<>>
    /\ covariance = <<>>
    /\ constraints = <<>>
    /\ maxIterations = DefaultMaxIterations
    /\ tolerance = DefaultTolerance
    /\ pc = "idle"
    /\ weights = <<>>
    /\ iter = 0
    /\ path = "none"
    /\ result = NoResult
    /\ fr = NoFrontier
    /\ frontier = <<>>
    /\ NoValues

NextHighConfidence ==
    \/ \E view \in AbsoluteViews : AddView(view)
    \/ ClearViews
    \/ ComputePosteriorReturnsCall

SpecHighConfidence == InitHighConfidence /\ [][NextHighConfidence]_vars

(***************************************************************************)
(* A MarkowitzResult of the caller's own (markowitz.hpp):                  *)
(* calculateSharpeRatio, setRiskFreeRate, toJSON and fromJSON.  The struct *)
(* takes any doubles, so here risk and sharpeRatio are carried themselves. *)
(*                                                                         *)
(* A JSON text is a sequence of lexemes [lex, word, number]: the           *)
(* characters "k": of a key k, a double quote, one of [ ] , { }, a number  *)
(* in fixed notation, or a run of other characters (a word).  White space  *)
(* is left out: findValue skips it and std::stod stops at it.              *)
(***************************************************************************)
\* oss << x under std::fixed and std::setprecision(8): sign, digits before the
\* point and the eight digits behind it, rounded to nearest, a tie to even
FormatFixed(x) ==
    LET n == Abs(x[1])
        \* k more decimal digits of r / x[2] behind the digits acc, and the remainder
        RECURSIVE FixedDigits(_, _, _)
        FixedDigits(r, k, acc) ==
            IF k = 0 THEN <<acc, r>>
            ELSE FixedDigits((r * 10) % x[2], k - 1, acc * 10 + (r * 10) \div x[2])
        digits == FixedDigits(n % x[2], 8, 0)
        up == 2 * digits[2] > x[2] \/ (2 * digits[2] = x[2] /\ digits[1] % 2 = 1)
        frac == digits[1] + (IF up THEN 1 ELSE 0)
    IN  [neg |-> x[1] < 0,
         units |-> (n \div x[2]) + (IF frac = 10^8 THEN 1 ELSE 0),
         frac |-> IF frac = 10^8 THEN 0 ELSE frac]

\* std::stod of the characters FormatFixed writes
stod(text) ==
    LET value == RAdd(RInt(text.units), Rat(text.frac, 10^8))
    IN  IF text.neg THEN RNeg(value) ELSE value

\* a lexeme that is not a number: the characters "k": of a key k ("key"), a
\* double quote ("quote"), other characters ("word"), or one of [ ] , { }
Lexeme(lex, word) ==
    [lex |-> lex, word |-> word, number |-> [neg |-> FALSE, units |-> 0, frac |-> 0]]
\* oss << x
Number(x) == [lex |-> "number", word |-> "", number |-> FormatFixed(x)]

\* MarkowitzResult::toJSON
toJSON(r) ==
    LET \* weights[0] << ", " << weights[1] << ...
        RECURSIVE WeightsText(_)
        WeightsText(k) ==
            IF k = 0 THEN <<>>
            ELSE WeightsText(k - 1) \o (IF k > 1 THEN <<Lexeme(",", ",")>> ELSE <<>>)
                                    \o <<Number(r.weights[k])>>
    IN  <<Lexeme("{", "{"),
          Lexeme("key", "converged"), Lexeme("word", IF r.converged THEN "true" ELSE "false"),
          Lexeme(",", ","), Lexeme("key", "message"), Lexeme("quote", "\"")>>
            \o r.message
            \o <<Lexeme("quote", "\""), Lexeme(",", ","),
                 Lexeme("key", "expectedReturn"), Number(r.expectedReturn), Lexeme(",", ","),
                 Lexeme("key", "risk"), Number(r.risk), Lexeme(",", ","),
                 Lexeme("key", "sharpeRatio"), Number(r.sharpeRatio), Lexeme(",", ","),
                 Lexeme("key", "weights"), Lexeme("[", "[")>>
            \o WeightsText(Len(r.weights))
            \o <<Lexeme("]", "]"), Lexeme("}", "}")>>

\* the lambda findValue of fromJSON: [ok, text, what], the text a sequence of
\* lexemes; ok = FALSE stands for its runtime_error
findValue(json, key) ==
    LET \* json.find(searchKey): the first position of the characters "key":
        \* (0 is npos)
        RECURSIVE FindKey(_)
        FindKey(i) ==
            IF i > Len(json) THEN 0
            ELSE IF json[i].lex = "key" /\ json[i].word = key THEN i
            ELSE FindKey(i + 1)
        \* json.find('"', pos): the first double quote from position i on, which
        \* may be the one that opens the characters of a key (0 is npos)
        RECURSIVE FindQuote(_)
        FindQuote(i) ==
            IF i > Len(json) THEN 0
            ELSE IF json[i].lex \in {"quote", "key"} THEN i
            ELSE FindQuote(i + 1)
        \* the scan for the bracket that closes an array: the position behind
        \* it, or behind the text
        RECURSIVE FindClose(_, _)
        FindClose(i, depth) ==
            IF i > Len(json) THEN i
            ELSE IF json[i].lex = "[" THEN FindClose(i + 1, depth + 1)
            ELSE IF json[i].lex = "]"
                 THEN IF depth = 1 THEN i + 1 ELSE FindClose(i + 1, depth - 1)
            ELSE FindClose(i + 1, depth)
        pos == FindKey(1) + 1
        end == FindQuote(pos + 1)
    IN  IF pos = 1 THEN [ok |-> FALSE, text |-> <<>>, what |-> "runtime_error"]
        ELSE IF pos > Len(json) THEN [ok |-> TRUE, text |-> <<>>, what |-> ""]
        ELSE IF json[pos].lex = "key"
        THEN [ok |-> TRUE, text |-> <<Lexeme("word", json[pos].word)>>, what |-> ""]
        ELSE IF json[pos].lex = "quote"
        THEN IF end = 0 THEN [ok |-> FALSE, text |-> <<>>, what |-> "runtime_error"]
             ELSE [ok |-> TRUE, text |-> SubSeq(json, pos + 1, end - 1), what |-> ""]
        ELSE IF json[pos].lex = "["
        THEN [ok |-> TRUE, text |-> SubSeq(json, pos, FindClose(pos, 0) - 1), what |-> ""]
        ELSE IF json[pos].lex = "word" /\ json[pos].word \in {"true", "false"}
        THEN [ok |-> TRUE, text |-> <<json[pos]>>, what |-> ""]
        ELSE IF json[pos].lex = "number"
        THEN [ok |-> TRUE, text |-> <<json[pos]>>, what |-> ""]
        ELSE [ok |-> TRUE, text |-> <<>>, what |-> ""]

\* MarkowitzResult::fromJSON: [ok, result, what]; ok = FALSE stands for the
\* exception it leaves with
fromJSON(json) ==
    LET \* std::stod(findValue(key)); stod throws invalid_argument on characters
        \* that do not begin with a number
        NumberValue(found) ==
            IF ~found.ok THEN [ok |-> FALSE, value |-> Zero, what |-> found.what]
            ELSE IF Len(found.text) = 0 \/ found.text[1].lex # "number"
            THEN [ok |-> FALSE, value |-> Zero, what |-> "invalid_argument"]
            ELSE [ok |-> TRUE, value |-> stod(found.text[1].number), what |-> ""]
        \* the loop over the tokens between the brackets: the commas separate
        \* them, an empty token is skipped; [ok, values, what]
        RECURSIVE WeightsValues(_, _)
        WeightsValues(text, i) ==
            IF i <= 0 THEN [ok |-> TRUE, values |-> <<>>, what |-> ""]
            ELSE LET before == WeightsValues(text, i - 1)
                 IN  IF ~before.ok \/ text[i].lex = "," THEN before
                     ELSE IF text[i].lex # "number"
                     THEN [ok |-> FALSE, values |-> <<>>, what |-> "invalid_argument"]
                     ELSE [before EXCEPT !.values = Append(@, stod(text[i].number))]
        converged == findValue(json, "converged")
        message == findValue(json, "message")
        expectedReturn == NumberValue(findValue(json, "expectedReturn"))
        risk == NumberValue(findValue(json, "risk"))
        sharpeRatio == NumberValue(findValue(json, "sharpeRatio"))
        weightsStr == findValue(json, "weights")
        weightsVec == IF weightsStr.ok
                      THEN WeightsValues(SubSeq(weightsStr.text, 2, Len(weightsStr.text) - 1),
                                         Len(weightsStr.text) - 2)
                      ELSE [ok |-> FALSE, values |-> <<>>, what |-> weightsStr.what]
        failed == [ok |-> FALSE, result |-> NoResult, what |-> ""]
    IN  IF ~converged.ok THEN [failed EXCEPT !.what = converged.what]
        ELSE IF ~message.ok THEN [failed EXCEPT !.what = message.what]
        ELSE IF ~expectedReturn.ok THEN [failed EXCEPT !.what = expectedReturn.what]
        ELSE IF ~risk.ok THEN [failed EXCEPT !.what = risk.what]
        ELSE IF ~sharpeRatio.ok THEN [failed EXCEPT !.what = sharpeRatio.what]
        ELSE IF ~weightsVec.ok THEN [failed EXCEPT !.what = weightsVec.what]
        ELSE [ok |-> TRUE,
              result |-> [weights |-> weightsVec.values,
                          expectedReturn |-> expectedReturn.value,
                          risk |-> risk.value,
                          sharpeRatio |-> sharpeRatio.value,
                          converged |-> converged.text = <<Lexeme("word", "true")>>,
                          message |-> message.text],
              what |-> ""]

\* a Sharpe ratio that leaves the risk-free rate out
calculateSharpeRatioAtZero(r, riskFreeRate) ==
    IF LeDec(r.risk, EPSILON) THEN Zero ELSE RDiv(r.expectedReturn, r.risk)

\* MarkowitzResult::calculateSharpeRatio
calculateSharpeRatio(r, riskFreeRate) ==
    IF LeDec(r.risk, EPSILON) THEN Zero
    ELSE RDiv(RSub(r.expectedReturn, riskFreeRate), r.risk)

\* the results the caller holds: the fields of the struct are public, and
\* the last two messages hold double quotes
ResultPool ==
    {[weights |-> w, expectedReturn |-> s[1], risk |-> s[2], sharpeRatio |-> s[3],
      converged |-> c, message |-> m] :
        w \in {<<>>, <<Rat(1, 3), Rat(2, 3)>>, <<Rat(3, 2), Rat(-1, 2)>>},
        s \in {<<Zero, Zero, Zero>>, <<Rat(1, 8), Rat(1, 4), Rat(1, 2)>>,
               <<Rat(-1, 16), Rat(1, 7), Rat(-7, 16)>>},
        c \in BOOLEAN,
        m \in {<<>>, <<Lexeme("word", "Minimum variance portfolio computed")>>,
               <<Lexeme("word", "say "), Lexeme("quote", "\""), Lexeme("word", "hi"),
                 Lexeme("quote", "\"")>>,
               <<Lexeme("word", "see "), Lexeme("key", "risk"), Number(RInt(9))>>}}
RiskFreeRates == {Zero, Rat(1, 50), Rat(1, 8)}

InitResult ==
    /\ result \in ResultPool
    /\ call = [op |-> "MarkowitzResult", arg |-> result]
    /\ raised = "none"
    /\ bl = NoBlackLitterman
    /\ expectedReturns = <<>>
    /\ covariance = <<>>
    /\ constraints = <<>>
    /\ maxIterations = DefaultMaxIterations
    /\ tolerance = DefaultTolerance
    /\ pc = "idle"
    /\ weights = <<>>
    /\ iter = 0
    /\ path = "none"
    /\ fr = NoFrontier
    /\ frontier = <<>>
    /\ NoValues

\* MarkowitzResult::setRiskFreeRate
SetRiskFreeRate(riskFreeRate) ==
    /\ call' = [op |-> "setRiskFreeRate", arg |-> riskFreeRate]
    /\ raised' = "none"
    /\ result' = [result EXCEPT !.sharpeRatio = calculateSharpeRatio(result, riskFreeRate)]
    /\ answer' = NoAnswer
    /\ UNCHANGED <<bl, optimizer, pc, weights, iter, path, fr, frontier,
                   constraintSet, covarianceMatrix>>

\* MarkowitzResult::calculateSharpeRatio, called by the holder of the result
CalculateSharpeRatioCall(riskFreeRate) ==
    /\ ValueCall("calculateSharpeRatio", riskFreeRate, "none")
    /\ answer' = calculateSharpeRatio(result, riskFreeRate)
    /\ UNCHANGED <<constraintSet, covarianceMatrix>>

\* result.toJSON()
ToJSONCall ==
    /\ ValueCall("toJSON", <<>>, "none")
    /\ answer' = toJSON(result)
    /\ UNCHANGED <<constraintSet, covarianceMatrix>>

\* MarkowitzResult::fromJSON(json) for the text toJSON has just returned; the
\* answer is [ok, result, what]
FromJSONCall ==
    /\ call.op = "toJSON"
    /\ answer' = fromJSON(answer)
    /\ ValueCall("fromJSON", answer, IF answer'.ok THEN "none" ELSE answer'.what)
    /\ UNCHANGED <<constraintSet, covarianceMatrix>>

NextResult ==
    \/ \E riskFreeRate \in RiskFreeRates : SetRiskFreeRate(riskFreeRate)
    \/ \E riskFreeRate \in RiskFreeRates : CalculateSharpeRatioCall(riskFreeRate)
    \/ ToJSONCall
    \/ FromJSONCall

SpecResult == InitResult /\ [][NextResult]_vars

(***************************************************************************)
(* solveConstrainedQP in floating point.  Everywhere else a double is an   *)
(* exact rational; here every sum and quotient of the loop is rounded to   *)
(* the nearest double, ties to even, as the hardware does, for doubles     *)
(* whose significand has MantissaBits bits instead of 53.                  *)
(***************************************************************************)
MantissaBits == 5
MaxPasses == 3

RECURSIVE Pow2(_)
Pow2(k) == IF k = 0 THEN 1 ELSE 2 * Pow2(k - 1)

\* the double nearest to x
Round(x) ==
    LET RECURSIVE Nearest(_, _)
        Nearest(n, d) ==
            IF n >= Pow2(MantissaBits) * d THEN RMul(RInt(2), Nearest(n, 2 * d))
            ELSE IF n < Pow2(MantissaBits - 1) * d THEN RMul(Rat(1, 2), Nearest(2 * n, d))
            ELSE LET q == n \div d
                     r == n % d
                 IN  RInt(IF 2 * r > d \/ (2 * r = d /\ q % 2 = 1) THEN q + 1 ELSE q)
    IN  IF x[1] = 0 THEN Zero
        ELSE IF x[1] > 0 THEN Nearest(x[1], x[2]) ELSE RNeg(Nearest(-x[1], x[2]))

\* one pass of the body of the loop of solveConstrainedQP, before the
\* feasibility check: Vector::sum adds from the left, operator/ divides entry
\* by entry
ProjectRounded(w) ==
    LET n == Len(w)
        clipped == [i \in 1..n |-> IF RSign(w[i]) < 0 THEN Zero ELSE w[i]]
        RECURSIVE SumRounded(_)
        SumRounded(k) ==
            IF k = 0 THEN Zero ELSE Round(RAdd(SumRounded(k - 1), clipped[k]))
    IN  IF GtDec(RAbs(SumRounded(n)), EPSILON)
        THEN [i \in 1..n |-> Round(RDiv(clipped[i], SumRounded(n)))]
        ELSE VConst(n, Round(Rat(1, n)))

\* the weights a closed form hands to solveConstrainedQP: doubles nearest to
\* tenths that sum to 1, some of them negative
InitialWeights ==
    LET K == -5..15
    IN  {<<Round(Rat(a, 10)), Round(Rat(10 - a, 10))>> : a \in K}
          \cup {<<Round(Rat(k[1], 10)), Round(Rat(k[2], 10)), Round(Rat(10 - k[1] - k[2], 10))>> :
                   k \in {k \in K \X K : 10 - k[1] - k[2] \in K}}

\* the entry of solveConstrainedQP(initialWeights, lambda) on an optimizer
\* whose constraints are met by the first pass (long only) or by none (no
\* weights that sum to 1 lie in the box), with setMaxIterations(cap) made
InitProjection ==
    /\ \E w \in InitialWeights, cap \in 1..MaxPasses,
          cs \in {<<LongOnlyConstraint(EPSILON)>>, <<BoxConstraint(Zero, Rat(3, 10), EPSILON)>>} :
          /\ call = [op |-> "solveConstrainedQP", arg |-> w]
          /\ weights = w
          /\ constraints = cs
          /\ maxIterations = cap
          /\ expectedReturns = [i \in 1..Len(w) |-> RInt(i)]
          /\ covariance = [i \in 1..Len(w) |-> [j \in 1..Len(w) |-> IF i = j THEN One ELSE Zero]]
    /\ bl = NoBlackLitterman
    /\ tolerance = DefaultTolerance
    /\ pc = "solveConstrainedQP"
    /\ raised = "none"
    /\ iter = 0
    /\ path = "fallback"
    /\ result = NoResult
    /\ fr = NoFrontier
    /\ frontier = <<>>
    /\ NoValues

\* one iteration of the loop of solveConstrainedQP
QPIterateRounded ==
    /\ pc = "solveConstrainedQP"
    /\ iter < maxIterations
    /\ weights' = ProjectRounded(weights)
    /\ IF isFeasible(constraints, weights')
       THEN /\ iter' = iter
            /\ Return(ConstrainedResult(weights'), fr, frontier)
       ELSE /\ iter' = iter + 1
            /\ UNCHANGED <<pc, result, fr, frontier>>
    /\ UNCHANGED <<bl, optimizer, call, raised, path>>
    /\ UNCHANGED values

NextProjection == QPIterateRounded \/ QPExhausted

SpecProjection == InitProjection /\ [][NextProjection]_vars

(***************************************************************************)
(* Properties                                                              *)
(***************************************************************************)
\* a minimumVariance, optimize or targetReturn call (a public one, or one made
\* by efficientFrontier) has returned
Returned == pc # "solveConstrainedQP" /\ result # NoResult
PublicReturned(op) == pc = "idle" /\ call.op = op /\ result # NoResult
NumAssets == Len(expectedReturns)
\* every result the last call handed back: its own, and the frontier's
Results == {result} \cup {frontier[k] : k \in 1..Len(frontier)}

\* C1: whenever minimumVariance, optimize or targetReturn takes the projection
\* fallback, the result it returns has converged = true, also when the loop
\* ran out of iterations with the constraints never feasible
C1_FallbackReportsConverged ==
    (Returned /\ path = "fallback") => result.converged

C1_Witness ==
    /\ PublicReturned("optimize")
    /\ path = "fallback"
    /\ iter = maxIterations
    /\ ~isFeasible(constraints, result.weights)
    /\ result.converged

\* C2: minimumVariance, optimize(lambda >= 0) and targetReturn raise nothing;
\* a covariance that is not positive-definite, constant returns in targetReturn
\* and a target outside the achievable range give converged = false with a
\* message
NotPositiveDefinite == ~cholesky(covariance).ok
ConstantReturns == \A i \in 1..NumAssets : expectedReturns[i] = expectedReturns[1]
OutOfRange(r, tol) ==
    \/ GtDec(RSub(VMin(expectedReturns), r), tol)
    \/ GtDec(RSub(r, VMax(expectedReturns)), tol)
C2_NumericalFailureIsAResult ==
    /\ (/\ pc = "idle"
        /\ \/ call.op \in {"minimumVariance", "targetReturn"}
           \/ call.op = "optimize" /\ RSign(call.arg) >= 0)
       => /\ raised = "none"
          /\ result # NoResult
          /\ (\/ NotPositiveDefinite
              \/ call.op = "targetReturn" /\ ConstantReturns
              \/ call.op = "targetReturn" /\ OutOfRange(call.arg, tolerance))
             => ~result.converged /\ result.message # ""
    /\ (pc = "idle" /\ call.op = "efficientFrontier" /\ call.arg >= 2) => raised = "none"

C2_Witness ==
    /\ PublicReturned("minimumVariance")
    /\ NotPositiveDefinite
    /\ raised = "none"
    /\ ~result.converged
    /\ result.message = "Optimization failed: Matrix is not positive-definite"

\* C3: every converged result, from the closed form or from the fallback, has
\* weights that sum to 1 within 1e-6
SumsToOne(r) == LeDec(RAbs(RSub(VSum(r.weights), One)), OneMillionth)
C3_ConvergedWeightsSumToOne ==
    \A r \in Results : r.converged => SumsToOne(r)

\* the fallback has clipped and renormalized the closed-form weights
C3_Witness ==
    /\ PublicReturned("targetReturn")
    /\ path = "fallback"
    /\ result.converged
    /\ \E i \in 1..NumAssets : result.weights[i] = Zero
    /\ SumsToOne(result)

\* C4: with a LongOnly constraint in the set, every converged result has each
\* weight >= -tolerance of that constraint
C4_LongOnlyHonoured ==
    \A k \in 1..Len(constraints) :
        constraints[k].kind = "LongOnly" =>
            \A r \in Results : r.converged =>
                \A i \in 1..Len(r.weights) :
                    ~GtDec(RNeg(r.weights[i]), constraints[k].tolerance)

C4_Witness ==
    /\ PublicReturned("minimumVariance")
    /\ \E k \in 1..Len(constraints) : constraints[k].kind = "LongOnly"
    /\ path = "fallback"
    /\ result.converged
    /\ \A i \in 1..NumAssets : RSign(result.weights[i]) >= 0

\* C5 as stated: targetReturn(r) has converged = false for every r outside
\* [min(mu), max(mu)]
C5_OutsideAssetRangeFails ==
    (/\ PublicReturned("targetReturn")
     /\ \/ RLt(call.arg, VMin(expectedReturns))
        \/ RLt(VMax(expectedReturns), call.arg))
    => ~result.converged

\* C5 amended: targetReturn(r) raises nothing and has converged = false for
\* every r outside [min(mu) - tolerance, max(mu) + tolerance]
C5_OutsideWidenedRangeFails ==
    (/\ pc = "idle"
     /\ call.op = "targetReturn"
     /\ OutOfRange(call.arg, tolerance))
    => raised = "none" /\ result # NoResult /\ ~result.converged

\* above max(mu), positive-definite covariance, returns not constant
C5_Witness ==
    /\ PublicReturned("targetReturn")
    /\ RLt(VMax(expectedReturns), call.arg)
    /\ OutOfRange(call.arg, tolerance)
    /\ ~NotPositiveDefinite
    /\ ~ConstantReturns
    /\ ~result.converged

\* C6: every converged result of targetReturn(r) has expectedReturn = r
\* (within 1e-6), without and with constraints
C6_TargetReturnIsMet ==
    (PublicReturned("targetReturn") /\ result.converged)
    => LeDec(RAbs(RSub(result.expectedReturn, call.arg)), OneMillionth)

\* C7: the expected returns of the results of efficientFrontier(n) are
\* non-decreasing along the sequence, within 1e-6
C7_FrontierReturnsNonDecreasing ==
    (pc = "idle" /\ call.op = "efficientFrontier")
    => \A k \in 1..(Len(frontier) - 1) :
          ~GtDec(RSub(frontier[k].expectedReturn, frontier[k + 1].expectedReturn),
                 OneMillionth)

\* C8 as stated: efficientFrontier(n) raises invalid_argument for n < 2; for
\* n >= 2, without constraints, with a converging minimumVariance and returns
\* that are not all equal, it returns exactly n results, all converged
FrontierReturned == pc = "idle" /\ call.op = "efficientFrontier"
MinimumVarianceOutcome == minimumVariance(expectedReturns, covariance, constraints)
C8_Premise ==
    /\ FrontierReturned
    /\ call.arg >= 2
    /\ Len(constraints) = 0
    /\ MinimumVarianceOutcome.tag = "done"
    /\ MinimumVarianceOutcome.result.converged
    /\ ~ConstantReturns
C9_WeightsHaveLengthN ==
    Returned => Len(result.weights) = NumAssets

\* C9 amended: a converged result has a weights vector of length n, a result
\* that did not converge has an empty one
C9_WeightsHaveLengthNIfConverged ==
    Returned => Len(result.weights) = IF result.converged THEN NumAssets ELSE 0

C9_Witness ==
    /\ PublicReturned("targetReturn")
    /\ ~result.converged
    /\ result.message = "System is singular (returns may be constant)"
    /\ Len(result.weights) = 0

\* C10: a negative lambda is raised as invalid_argument at the call, and is
\* never replaced by another value, by MarkowitzOptimizer::optimize and by
\* BlackLittermanOptimizer::optimize alike
C10_NegativeLambdaIsRaised ==
    (/\ pc = "idle"
     /\ call.op \in {"optimize", "BlackLittermanOptimizer::optimize"}
     /\ RSign(call.arg) < 0)
    => raised = "invalid_argument" /\ result = NoResult

(***************************************************************************)
(* Properties of the constraint layer, under SpecConstraintSet             *)
(***************************************************************************)
HasInfeasibleCombinationReturned == call.op = "hasInfeasibleCombination" /\ raised = "none"
HasKind(kind) == \E k \in 1..Len(constraintSet) : constraintSet[k].kind = kind
\* the bounds of box c cannot add up to 1 over n assets
SumOfOneUnreachable(c, n) ==
    IF c.uniformBounds
    THEN \/ GtDec(RSub(One, RMul(RInt(n), c.uniformUpper)), EPSILON)
         \/ GtDec(RSub(RMul(RInt(n), c.uniformLower), One), EPSILON)
    ELSE \/ GtDec(RSub(One, VSum(c.upperBounds)), EPSILON)
         \/ GtDec(RSub(VSum(c.lowerBounds), One), EPSILON)
\* box c has a negative upper bound
NegativeUpperBound(c) ==
    IF c.uniformBounds THEN RSign(c.uniformUpper) < 0
    ELSE \E i \in 1..Len(c.upperBounds) : RSign(c.upperBounds[i]) < 0

\* C11: hasInfeasibleCombination(n) is true whenever the set holds a FullyInvested
\* constraint and a Box whose bounds cannot add up to 1, or a LongOnly constraint
\* and a Box with a negative upper bound, whatever else the set holds; for n = 0
\* it raises invalid_argument
C11_InfeasiblePairIsReported ==
    /\ (call.op = "hasInfeasibleCombination" /\ call.arg = 0) => raised = "invalid_argument"
    /\ HasInfeasibleCombinationReturned =>
          \A k \in 1..Len(constraintSet) :
              (/\ constraintSet[k].kind = "Box"
               /\ \/ HasKind("FullyInvested") /\ SumOfOneUnreachable(constraintSet[k], call.arg)
                  \/ HasKind("LongOnly") /\ NegativeUpperBound(constraintSet[k]))
                 => answer = TRUE

\* C12: whenever hasInfeasibleCombination(n) returns true, no weight vector of
\* length n makes ConstraintSet::isFeasible return true
C12_ReportedSetIsUnsatisfiable ==
    (HasInfeasibleCombinationReturned /\ answer = TRUE) =>
        \A w \in WeightVectors : Len(w) = call.arg => ~isFeasible(constraintSet, w)

\* what section 4.4 of the specification asks of a constraint and non-empty weights
WithinTolerance(c, w) ==
    CASE c.kind = "FullyInvested" ->
            /\ LeDec(RSub(VSum(w), One), c.tolerance)
            /\ LeDec(RSub(One, VSum(w)), c.tolerance)
      [] c.kind = "LongOnly" ->
            \A i \in 1..Len(w) : LeDec(RNeg(w[i]), c.tolerance)
      [] c.kind = "Box" ->
            /\ ~c.uniformBounds => Len(w) = Len(c.lowerBounds)
            /\ \A i \in 1..Len(w) :
                  LET lower == IF c.uniformBounds THEN c.uniformLower ELSE c.lowerBounds[i]
                      upper == IF c.uniformBounds THEN c.uniformUpper ELSE c.upperBounds[i]
                  IN  LeDec(RSub(lower, w[i]), c.tolerance) /\ LeDec(RSub(w[i], upper), c.tolerance)

\* C13: for a non-empty weight vector, isFeasible of a constraint is true exactly
\* when the sum is within the tolerance of 1 (FullyInvested), every weight is at
\* least minus the tolerance (LongOnly), every weight is within the tolerance of
\* its bounds and a per-asset box has as many bounds as there are weights (Box)
C13_FeasibleIffWithinTolerance ==
    (call.op = "Constraint::isFeasible" /\ Len(call.arg.weights) > 0) =>
        /\ raised = "none"
        /\ answer = WithinTolerance(call.arg.constraint, call.arg.weights)

\* a box has accepted a weight below its lower bound and within its tolerance
C13_Witness ==
    /\ call.op = "Constraint::isFeasible"
    /\ call.arg.constraint.kind = "Box"
    /\ call.arg.constraint.uniformBounds
    /\ answer = TRUE
    /\ \E i \in 1..Len(call.arg.weights) :
          RLt(call.arg.weights[i], call.arg.constraint.uniformLower)

\* C14 as stated: isFeasible of an empty weight vector is false and nothing is
\* raised, for a constraint and for a ConstraintSet
C14_EmptyWeightsAreInfeasible ==
    (\/ call.op = "Constraint::isFeasible" /\ call.arg.weights = <<>>
     \/ call.op = "ConstraintSet::isFeasible" /\ call.arg = <<>>)
        => (answer = FALSE /\ raised = "none")

\* C14 amended: the same for a constraint and for a ConstraintSet that holds at
\* least one constraint
C14_EmptyWeightsAreInfeasibleIfConstrained ==
    (\/ call.op = "Constraint::isFeasible" /\ call.arg.weights = <<>>
     \/ call.op = "ConstraintSet::isFeasible" /\ call.arg = <<>> /\ Len(constraintSet) > 0)
        => (answer = FALSE /\ raised = "none")

\* a set of a FullyInvested, a LongOnly and a per-asset Box constraint has been
\* asked about the empty vector
C14_Witness ==
    /\ call.op = "ConstraintSet::isFeasible"
    /\ call.arg = <<>>
    /\ answer = FALSE
    /\ HasKind("FullyInvested")
    /\ HasKind("LongOnly")
    /\ \E k \in 1..Len(constraintSet) :
          constraintSet[k].kind = "Box" /\ ~constraintSet[k].uniformBounds

(***************************************************************************)
(* Properties of construction, under Spec                                  *)
(***************************************************************************)
\* C15: constructing a MarkowitzOptimizer raises invalid_argument and yields no
\* optimizer when the length of the expected returns differs from the dimension
\* of the covariance, or when hasInfeasibleCombination(n) is true of the
\* constraint set for n the number of assets
C15_InvalidConstructionIsRaised ==
    (/\ call.op = "MarkowitzOptimizer"
     /\ \/ Len(call.arg.mu) # Len(call.arg.cov)
        \/ hasInfeasibleCombination(call.arg.cs, Len(call.arg.mu)))
    => /\ raised = "invalid_argument"
       /\ NoOptimizer
       /\ ~MarkowitzIdle

\* a construction over matching dimensions was rejected for its constraint set
C15_Witness ==
    /\ call.op = "MarkowitzOptimizer"
    /\ raised = "invalid_argument"
    /\ Len(call.arg.mu) = Len(call.arg.cov)
    /\ hasInfeasibleCombination(call.arg.cs, Len(call.arg.mu))

(***************************************************************************)
(* Properties of the covariance wrapper, under SpecCovarianceMatrix        *)
(***************************************************************************)
\* C16: every CovarianceMatrix, in every state its constructors, its element
\* and data access and setLabels lead to, is square, symmetric within the
\* scale-relative tolerance, has strictly positive diagonal entries and holds
\* finite entries only
C16_CovarianceInvariant ==
    CovarianceMatrixHeld =>
        LET M == covarianceMatrix.matrix
        IN  /\ \A i \in 1..Len(M) : Len(M[i]) = Len(M)
            /\ \A i \in 1..Len(M), j \in 1..Len(M) : M[i][j][2] # 0
            /\ \A i \in 1..Len(M) : RSign(M[i][i]) > 0
            /\ \A i \in 1..Len(M), j \in 1..Len(M) :
                  LeDec(RDiv(RAbs(RSub(M[i][j], M[j][i])),
                             RMax(One, RMax(RAbs(M[i][j]), RAbs(M[j][i])))), EPSILON)

C18_NoViewsGiveEquilibrium ==
    (bl # NoBlackLitterman /\ call.op = "computePosteriorReturns" /\ Len(bl.views) = 0) =>
        /\ raised = "none"
        /\ answer.ok
        /\ answer.returns = bl.equilibriumReturns
        /\ answer.returns =
              computeEquilibriumReturns(bl.marketWeights, bl.covariance, bl.riskAversion)

\* the equilibrium returns have come back from an optimizer without views over
\* a singular covariance, which no posterior with views can be computed from
C18_Witness ==
    /\ bl # NoBlackLitterman
    /\ call.op = "computePosteriorReturns"
    /\ Len(bl.views) = 0
    /\ bl.covariance = Singular2
    /\ answer.returns = bl.equilibriumReturns

\* C19: BlackLittermanOptimizer::optimize ends as optimize of a fresh
\* MarkowitzOptimizer without constraints over (computePosteriorReturns(),
\* covariance) ends for the same lambda, the market risk aversion standing in
\* for a lambda that was not passed
C19_DelegatesToMarkowitz ==
    (bl # NoBlackLitterman /\ pc = "idle" /\ call.op = "BlackLittermanOptimizer::optimize") =>
        LET posterior == computePosteriorReturns(bl)
            lambda == IF call.arg = RInt(-1) THEN bl.riskAversion ELSE call.arg
            outcome == optimize(posterior.returns, bl.covariance, <<>>, lambda)
        IN  IF ~posterior.ok THEN raised = posterior.what
            ELSE IF RSign(lambda) < 0 THEN raised = "invalid_argument" /\ result = NoResult
            ELSE IF outcome.tag = "throw" THEN raised = outcome.what
            ELSE IF outcome.tag = "done" THEN raised = "none" /\ result = outcome.result
            ELSE raised = "none" /\ result = ConstrainedResult(Project(outcome.weights))

\* what section 4.6 of the specification asks of the constructor's arguments
MarketAccepted(m) ==
    /\ Len(m.marketWeights) # 0
    /\ Len(m.marketWeights) = Len(m.cov)
    /\ \A i \in 1..Len(m.marketWeights) : RSign(m.marketWeights[i]) >= 0
    /\ LeDec(RSub(VSum(m.marketWeights), One), OneMillionth)
    /\ LeDec(RSub(One, VSum(m.marketWeights)), OneMillionth)
    /\ RSign(m.riskAversion) > 0
    /\ RSign(m.tau) > 0

OneConfidentViewOn(i) ==
    /\ call.op = "computePosteriorReturns"
    /\ Len(bl.views) = 1
    /\ bl.views[1].confidence = Rat(99, 100)
    /\ bl.views[1].assets = [k \in 1..Len(bl.marketWeights) |-> IF k = i THEN One ELSE Zero]

WithinOneMillionth(a, b) == LeDec(RAbs(RSub(a, b)), OneMillionth)

\* C22: for every MarkowitzResult r, fromJSON(r.toJSON()) raises nothing and
\* reproduces every field: converged and message exactly, as many weights, and
\* expectedReturn, risk, sharpeRatio and each weight within 1e-6
C22_JSONRoundTrip ==
    call.op = "fromJSON" =>
        /\ raised = "none"
        /\ answer.ok
        /\ answer.result.converged = result.converged
        /\ answer.result.message = result.message
        /\ Len(answer.result.weights) = Len(result.weights)
        /\ WithinOneMillionth(answer.result.expectedReturn, result.expectedReturn)
        /\ WithinOneMillionth(answer.result.risk, result.risk)
        /\ WithinOneMillionth(answer.result.sharpeRatio, result.sharpeRatio)
        /\ \A i \in 1..Len(result.weights) :
              WithinOneMillionth(answer.result.weights[i], result.weights[i])

\* C23: setRiskFreeRate(rf) changes the sharpeRatio only, to
\* (expectedReturn - rf) / risk, or to 0 when risk <= EPSILON, and raises
\* nothing; calculateSharpeRatio(rf) returns that value and changes no field
C23_OnlySharpeRatioChanges ==
    [][LET sharpe == IF LeDec(result.risk, EPSILON) THEN Zero
                     ELSE RDiv(RSub(result.expectedReturn, call'.arg), result.risk)
       IN  /\ call'.op = "setRiskFreeRate" =>
                /\ raised' = "none"
                /\ result'.sharpeRatio = sharpe
                /\ result'.weights = result.weights
                /\ result'.expectedReturn = result.expectedReturn
                /\ result'.risk = result.risk
                /\ result'.converged = result.converged
                /\ result'.message = result.message
           /\ call'.op = "calculateSharpeRatio" =>
                /\ raised' = "none"
                /\ answer' = sharpe
                /\ result' = result]_vars

\* a rate other than 0 has changed the Sharpe ratio of a result with a risk
C23_Witness ==
    /\ call.op = "setRiskFreeRate"
    /\ call.arg # Zero
    /\ GtDec(result.risk, EPSILON)
    /\ result.sharpeRatio = RDiv(RSub(result.expectedReturn, call.arg), result.risk)
    /\ result.sharpeRatio # RDiv(result.expectedReturn, result.risk)

\* the closed form of a public call, taken from the optimizer as it stands
ClosedForm(op, arg) ==
    CASE op = "minimumVariance" -> minimumVariance(expectedReturns, covariance, constraints)
      [] op = "optimize" -> optimize(expectedReturns, covariance, constraints, arg)
      [] op = "targetReturn" ->
            targetReturn(expectedReturns, covariance, constraints, tolerance, arg)
OptimizationCalls == {"minimumVariance", "optimize", "targetReturn", "efficientFrontier"}

\* C24: the loop of solveConstrainedQP makes at most maxIterations passes,
\* maxIterations being at least 1 (1000 by default); it goes on to another pass
\* only while the weights of the last pass are infeasible; and every
\* minimumVariance, optimize, targetReturn and efficientFrontier call that has
\* begun returns
C24_FallbackTerminates ==
    /\ [](maxIterations >= 1 /\ iter <= maxIterations)
    /\ []((pc = "solveConstrainedQP" /\ iter >= 1) => ~isFeasible(constraints, weights))
    /\ (pc # "idle") ~> (pc = "idle")

C24_Witness ==
    /\ PublicReturned("efficientFrontier")
    /\ maxIterations = DefaultMaxIterations
    /\ path = "fallback"
    /\ iter = maxIterations
    /\ Len(frontier) >= 2

\* solveConstrainedQP as a function of the optimizer: x is the weights and
\* whether the loop has met its break; the loop after at most n more passes
\* (n passes are those of the first half followed by those of the rest)
RECURSIVE QPPasses(_, _)
QPPasses(x, n) ==
    IF n = 0 \/ x.broke THEN x
    ELSE IF n = 1
         THEN LET p == Project(x.weights)
              IN  [weights |-> p, broke |-> isFeasible(constraints, p)]
         ELSE QPPasses(QPPasses(x, n \div 2), n - (n \div 2))
QPFrom(w) == QPPasses([weights |-> w, broke |-> FALSE], maxIterations).weights

\* what minimumVariance, optimize or targetReturn returns on the optimizer as
\* it stands
Returns(op, arg) ==
    LET outcome == ClosedForm(op, arg)
    IN  IF outcome.tag = "fallback"
        THEN ConstrainedResult(QPFrom(outcome.weights))
        ELSE outcome.result

RECURSIVE FrontierFrom(_, _)
FrontierFrom(f, front) ==
    IF ~(f.i < f.numPoints) THEN front
    ELSE LET r == Returns("targetReturn", FrontierTarget(f))
         IN  FrontierFrom([f EXCEPT !.i = @ + 1],
                          IF r.converged THEN Append(front, r) ELSE front)

\* what efficientFrontier(numPoints) returns on the optimizer as it stands
efficientFrontierOf(numPoints) ==
    LET minVar == Returns("minimumVariance", <<>>)
    IN  IF ~minVar.converged THEN <<>>
        ELSE FrontierFrom([stage |-> "targetReturn", numPoints |-> numPoints, i |-> 0,
                           minReturn |-> minVar.expectedReturn,
                           maxReturn |-> VMax(expectedReturns)], <<>>)

\* C25: minimumVariance, optimize, targetReturn and efficientFrontier leave
\* expectedReturns_, covariance_, constraints_, maxIterations_ and tolerance_
\* as they were, and what each returns is a function of these and of its
\* argument alone, whatever calls came before: the same call on the same
\* optimizer returns the same result
C25_CallsKeepNoState ==
    /\ [][call'.op \in OptimizationCalls => UNCHANGED optimizer]_vars
    /\ []((pc = "idle" /\ raised = "none"
              /\ call.op \in {"minimumVariance", "optimize", "targetReturn"})
           => result = Returns(call.op, call.arg))
    /\ []((pc = "idle" /\ raised = "none" /\ call.op = "efficientFrontier")
           => frontier = efficientFrontierOf(call.arg))

C25_Witness ==
    /\ PublicReturned("targetReturn")
    /\ path = "fallback"
    /\ maxIterations = 2
    /\ iter = 2
    /\ Len(constraints) >= 1

\* C28: in every state of a MarkowitzOptimizer maxIterations_ >= 1 and
\* tolerance_ > 0; setMaxIterations(0) and setTolerance(t <= 0) raise
\* invalid_argument, and every other call of the two returns with its
\* argument stored
C28_SettersKeepTheirBounds ==
    /\ maxIterations >= 1
    /\ DecPositive(tolerance)
    /\ (MarkowitzIdle /\ call.op = "setMaxIterations")
          => IF call.arg = 0
             THEN raised = "invalid_argument"
             ELSE raised = "none" /\ maxIterations = call.arg
    /\ (MarkowitzIdle /\ call.op = "setTolerance")
          => IF ~DecIsNaN(call.arg) /\ ~DecPositive(call.arg)
             THEN raised = "invalid_argument"
             ELSE raised = "none" /\ tolerance = call.arg

(***************************************************************************)
(* Properties of the projection in floating point, under SpecProjection    *)
(***************************************************************************)
\* half a unit in the last place of a double in [1, 2)
Roundoff == Rat(1, Pow2(MantissaBits))
\* a and b differ by at most k roundoffs of a
WithinRoundoffs(a, b, k) == RLe(RAbs(RSub(a, b)), RMul(RMul(RInt(k), Roundoff), RAbs(a)))
AfterFirstPass == path = "fallback" /\ (pc # "solveConstrainedQP" \/ iter >= 1)
ReturnedInfeasible == pc = "idle" /\ result # NoResult /\ ~isFeasible(constraints, result.weights)

C30_HeldSetIsNotInfeasible ==
    MarkowitzIdle => ~hasInfeasibleCombination(constraints, NumAssets)

(***************************************************************************)
(* Properties of cholesky and inverse, under SpecFactorization             *)
(***************************************************************************)
\* A(i,j) = A(j,i) for all i, j
Symmetric(A) == \A i \in 1..Len(A), j \in 1..Len(A) : A[i][j] = A[j][i]
\* the determinant of the leading k x k block, k <= 2
LeadingMinor(A, k) ==
    IF k = 1 THEN A[1][1] ELSE RSub(RMul(A[1][1], A[2][2]), RMul(A[1][2], A[2][1]))
\* x^T A x > 0 for every x # 0, which for a symmetric A is that every
\* leading minor is positive
PositiveDefinite(A) == \A k \in 1..Len(A) : RSign(LeadingMinor(A, k)) > 0
\* L * L^T for the factor F, whose L(i,k) is F.M[i][k] / sqrt(F.D[k])
FactorProduct(F) ==
    [i \in 1..Len(F.M) |-> [j \in 1..Len(F.M) |->
        VSum([k \in 1..Len(F.M) |-> RDiv(RMul(F.M[i][k], F.M[j][k]), F.D[k])])]]
LowerTriangular(F) ==
    \A i \in 1..Len(F.M), j \in 1..Len(F.M) : j > i => F.M[i][j] = Zero
\* every entry of A is within the tolerance t of the same entry of B
EntriesWithin(A, B, t) ==
    /\ Len(A) = Len(B)
    /\ \A i \in 1..Len(A) :
          /\ Len(A[i]) = Len(B[i])
          /\ \A j \in 1..Len(A[i]) : LeDec(RAbs(RSub(A[i][j], B[i][j])), t)
IdentityMatrix(n) == [i \in 1..n |-> [j \in 1..n |-> IF i = j THEN One ELSE Zero]]

CholeskyReturned == call.op = "cholesky" /\ raised = "none"
InverseCalled == call.op = "inverse"

\* C26: cholesky() returns a lower-triangular L with L * L^T within 1e-10 of
\* the input exactly when the input is square, symmetric and positive-definite;
\* for every other input it raises instead of returning a factor.
C26_CholeskyExactlyWhenPositiveDefinite ==
    call.op = "cholesky" =>
        LET A == covarianceMatrix.matrix
        IN  IF isSquare(A) /\ Symmetric(A) /\ PositiveDefinite(A)
            THEN /\ raised = "none"
                 /\ LowerTriangular(answer)
                 /\ EntriesWithin(FactorProduct(answer), A, Dec(1, 10))
            ELSE raised \in {"invalid_argument", "runtime_error"}

\* C27: for any matrix C accepted as a valid CovarianceMatrix, C.inverse()
\* multiplied by C equals the identity within 1e-9 per entry.
C27_InverseOfValidCovariance ==
    (InverseCalled /\ CovarianceMatrixValidate(covarianceMatrix.matrix)) =>
        /\ raised = "none"
        /\ EntriesWithin(MatMul(answer, covarianceMatrix.matrix),
                         IdentityMatrix(Len(covarianceMatrix.matrix)), Dec(1, 9))

====
